---- MODULE Spec2Model ----
(***************************************************************************)
(* Model of the analytics-hub core: the resilience layer (circuit breaker, *)
(* retry policy, execute_with_resilience) and the anomaly detector.        *)
(*                                                                         *)
(* Time is a discrete clock `now`; Instant values are clock readings.      *)
(* Option<T> is modelled as a sequence of length 0 (None) or 1 (Some).     *)
(***************************************************************************)
EXTENDS Integers, Sequences, FiniteSets, TLC

(***************************************************************************)
(* Bounds of the model.                                                    *)
(***************************************************************************)
MaxThreshold == 3
MaxTimeout == 1
MaxTime == 3
MaxFailures == 4
MaxAttempts == 3
\* the configurations enumerated for concurrent execute_with_resilience calls
MaxExecThreshold == 2
MaxExecAttempts == 2
\* equal values a metric's window may already hold, and check_anomaly calls made after
MaxPrefill == 20
MaxChecks == 3
\* the largest limit passed to get_anomalies
MaxLimit == 2
\* PredictionEngine: small configured history sizes, points already held at the start,
\* add_data_point calls, and clock ticks of TickSeconds seconds
MaxHistory == 2
MaxFill == 10
MaxAdds == 1
MaxPredTicks == 2
TickSeconds == 150
\* CorrelationEngine: add_event calls and clock steps
MaxEvents == 1
MaxCorrTicks == 1
\* occurrences a temporal pattern holds at the start of SpecAnalysis
MaxOccurrences == 101
\* EventIngester: results of consumer.recv() in a run, events of a published batch,
\* publish_batch calls
MaxMessages == 2
MaxBatch == 3
MaxBatches == 1
\* check_anomaly calls, or add_data_point calls, of the concurrent callers
MaxConcCalls == 2

(***************************************************************************)
(* Program constants.                                                      *)
(***************************************************************************)
\* record_success: `if state.success_count >= 3`
SuccessesToClose == 3
\* RetryPolicy::new: max_delay = Duration::from_secs(30), in milliseconds
MaxDelayMs == 30000
\* check_anomaly: MetricBaseline::new(100)
BaselineCapacity == 100
\* check_anomaly: `if baseline.values.len() < 10`
WarmUp == 10
\* predict_arima refuses fewer points than this
MinHistory == 10
\* start_consuming: `if batch.len() >= 1000`
BatchLimit == 1000
\* start_consuming: sleep(Duration::from_secs(1)) after a consumer error
PauseSeconds == 1
\* CachedPrediction.ttl_seconds as predict_arima sets it
CacheTtlSeconds == 300
\* the correlation window of find_temporal_correlations, seconds
CorrelationWindow == 300

None == << >>
Some(x) == << x >>

\* Two concurrent callers sharing one breaker and one retry policy.
Tasks == { "a", "b" }

\* The metric names the callers use.
Metrics == { "latency", "cost" }

VARIABLES
    \* ---- CircuitBreaker ----
    cb,                 \* CircuitBreakerState: state, failure_count, success_count, last_failure_time
    failure_threshold,  \* CircuitBreaker.failure_threshold
    timeout,            \* CircuitBreaker.timeout, in clock ticks
    now,                \* Instant::now()
    \* ---- observations of the direct callers of the breaker ----
    last,               \* the last step: operation, breaker before it, returned value
    consec,             \* record_failure calls since the last record_success / reset / new
    hoSucc,             \* record_success calls made in the current half-open period
    \* ---- RetryPolicy ----
    max_attempts, initial_delay, multiplier10,
    rpc,                \* position of each caller inside RetryPolicy::execute
    attempts,           \* local `attempts`
    delay,              \* local `delay`, milliseconds
    results,            \* outcomes of the operation invocations of the current execute call
    slept,              \* delays slept in the current execute call
    \* ---- execute_with_resilience ----
    pc,                 \* position of each caller inside execute_with_resilience
    checkedAt,          \* what the breaker was when the caller's availability check ran
    recorded,           \* outcomes the current call recorded on the breaker
    openInvoke,         \* the operation was invoked while the breaker was Open and not timed out
    \* ---- AnomalyDetector ----
    sensitivity10,      \* config.anomaly_sensitivity, in tenths
    baselines,          \* DashMap<String, MetricBaseline>: metric -> None | Some(baseline)
    anomalies,          \* DashMap<String, Vec<Anomaly>>: metric -> None | Some(log)
    clock,              \* the time the callers stamp their data points with
    made,               \* check_anomaly calls made so far
    fed,                \* per metric: check_anomaly calls since its window was last empty
    lastCheck,          \* the last check_anomaly call: arguments, window before it, result
    astream,            \* per metric: the (value, timestamp) pairs checked since its window was last empty
    aret,               \* the get_anomalies call made in the last step, if one was: arguments and result
    \* ---- PredictionEngine ----
    history_size,       \* config.prediction_history_size
    time_series,        \* DashMap<String, TimeSeriesData>: metric -> None | Some(data)
    predictions,        \* DashMap<String, CachedPrediction>: metric -> None | Some(cached)
    pnow,               \* Utc::now(), seconds
    padds,              \* add_data_point calls made so far
    pcall,              \* the call each caller is inside, and how far it got
    pver,               \* per metric: points added so far
    pdone,              \* per metric: the latest point whose add_data_point has returned
    plast,              \* the call that returned in the last step, if one did: arguments, result, cache around it
    pseen,              \* the last predict call returned for the subject since its last add_data_point
    pstream,            \* per metric: the (value, timestamp) pairs added so far
    pcleaned,           \* per metric: cleanup_old_data dropped points since its last add_data_point
    \* ---- CorrelationEngine ----
    events,             \* DashMap<Uuid, AnalyticsEvent>: event id -> None | Some(event)
    correlations,       \* DashMap<Uuid, HashSet<Uuid>>: correlation id -> None | Some(event ids)
    patterns,           \* DashMap<String, TemporalPattern>: module pair -> None | Some(pattern)
    cnow,               \* Utc::now(), seconds
    cadds,              \* add_event calls made so far
    cticks,             \* clock steps taken so far
    ccall,              \* the add_event call each caller is inside, and how far it got
    clast,              \* the call that returned in the last step, if one did: argument and result
    cindexed,           \* the events whose id add_event has put in a correlation set so far
    cevicted,           \* cleanup_old_events has evicted an event
    \* ---- EventIngester ----
    lpc,                \* where the consumer loop is: "Receiving", "Flushing", "Paused"
    batch,              \* `batch`: the events buffered by the loop
    draining,           \* `batch.drain(..)`: the events of the batch being flushed, not yet sent
    channel,            \* the bounded mpsc channel to the downstream receiver
    buffer_size,        \* config.buffer_size, the capacity of the channel
    rx_open,            \* the receiver of the channel is alive
    message_count,      \* `message_count`
    lmsgs,              \* results of consumer.recv() in this run
    accepted,           \* the events deserialized so far, in order of receipt
    queued,             \* the events placed on the channel so far, in order
    llast,              \* the kind of the last result of consumer.recv() and of the one before
    publish,            \* the publish_batch call: its batch, how far it got, its result
    topic,              \* the events delivered to the transport by publish_batch
    \* ---- concurrent callers of the two windowed engines ----
    icall,              \* the check_anomaly, add_data_point or get_all_anomalies call each caller is inside, statement by statement
    collide             \* the two metric names hash to the same shard of the DashMaps

cbVars == << cb, failure_threshold, timeout, now >>
obsVars == << last, consec, hoSucc >>
retryCfg == << max_attempts, initial_delay, multiplier10 >>
retryVars == << rpc, attempts, delay, results, slept >>
execVars == << pc, checkedAt, recorded, openInvoke >>
resVars == << cbVars, obsVars, retryCfg, retryVars, execVars >>
anomVars == << sensitivity10, baselines, anomalies, clock, made, fed, lastCheck, astream, aret >>
predVars == << history_size, time_series, predictions, pnow, padds, pcall, pver, pdone, plast,
              pseen, pstream, pcleaned >>
\* what the resilience layer, the anomaly detector, the prediction engine and the
\* correlation engine never touch
corrVars == << events, correlations, patterns, cnow, cadds, cticks, ccall, clast, cindexed, cevicted >>
ingVars == << lpc, batch, draining, channel, buffer_size, rx_open, message_count, lmsgs,
             accepted, queued, llast, publish, topic >>
concVars == << icall, collide >>
nonResVars == << anomVars, predVars, corrVars, ingVars, concVars >>
nonAnomVars == << resVars, predVars, corrVars, ingVars, concVars >>
nonPredVars == << resVars, anomVars, corrVars, ingVars, concVars >>
nonCorrVars == << resVars, anomVars, predVars, ingVars, concVars >>
nonIngVars == << resVars, anomVars, predVars, corrVars, concVars >>
vars == << resVars, anomVars, predVars, corrVars, ingVars, concVars >>

(***************************************************************************)
(* CircuitBreaker (src/resilience/circuit_breaker.rs)                      *)
(***************************************************************************)
new ==
    [ state |-> "Closed", failure_count |-> 0, success_count |-> 0,
      last_failure_time |-> None ]

\* Mutant: the timeout counts as elapsed already when the elapsed time equals it.
M_Elapsed_ge(s, t, tmo) ==
    /\ s.last_failure_time # None
    /\ t - s.last_failure_time[1] >= tmo

\* `Instant::now() - last_failure > self.timeout`
Elapsed(s, t, tmo) ==
    /\ s.last_failure_time # None
    /\ t - s.last_failure_time[1] > tmo

\* Mutant: an Open breaker whose timeout has not elapsed lets the caller through.
M_is_available_open(s, t, tmo) ==
    CASE s.state = "Closed" -> [ ret |-> TRUE, st |-> s ]
      [] s.state = "Open" ->
            IF Elapsed(s, t, tmo)
            THEN [ ret |-> TRUE,
                   st |-> [ s EXCEPT !.state = "HalfOpen",
                                     !.failure_count = 0,
                                     !.success_count = 0 ] ]
            ELSE [ ret |-> TRUE, st |-> s ]
      [] s.state = "HalfOpen" -> [ ret |-> TRUE, st |-> s ]

\* is_available: the returned bool and the state it leaves.
is_available(s, t, tmo) ==
    CASE s.state = "Closed" -> [ ret |-> TRUE, st |-> s ]
      [] s.state = "Open" ->
            IF Elapsed(s, t, tmo)
            THEN [ ret |-> TRUE,
                   st |-> [ s EXCEPT !.state = "HalfOpen",
                                     !.failure_count = 0,
                                     !.success_count = 0 ] ]
            ELSE [ ret |-> FALSE, st |-> s ]
      [] s.state = "HalfOpen" -> [ ret |-> TRUE, st |-> s ]

\* Mutant: the breaker closes one success late.
M_record_success_late(s) ==
    CASE s.state = "HalfOpen" ->
            IF s.success_count + 1 > SuccessesToClose
            THEN [ state |-> "Closed", failure_count |-> 0, success_count |-> 0,
                   last_failure_time |-> None ]
            ELSE [ s EXCEPT !.success_count = @ + 1 ]
      [] s.state = "Closed" -> [ s EXCEPT !.failure_count = 0 ]
      [] s.state = "Open" -> s

\* Mutant: a success while Closed leaves the failure counter alone.
M_record_success_keep(s) ==
    CASE s.state = "HalfOpen" ->
            IF s.success_count + 1 >= SuccessesToClose
            THEN [ state |-> "Closed", failure_count |-> 0, success_count |-> 0,
                   last_failure_time |-> None ]
            ELSE [ s EXCEPT !.success_count = @ + 1 ]
      [] s.state = "Closed" -> s
      [] s.state = "Open" -> s

record_success(s) ==
    CASE s.state = "HalfOpen" ->
            IF s.success_count + 1 >= SuccessesToClose
            THEN [ state |-> "Closed", failure_count |-> 0, success_count |-> 0,
                   last_failure_time |-> None ]
            ELSE [ s EXCEPT !.success_count = @ + 1 ]
      [] s.state = "Closed" -> [ s EXCEPT !.failure_count = 0 ]
      [] s.state = "Open" -> s

\* Mutant: the breaker opens one failure late.
M_record_failure_late(s, t, threshold) ==
    LET s1 == [ s EXCEPT !.failure_count = @ + 1,
                         !.last_failure_time = Some(t) ]
    IN  CASE s.state = "Closed" ->
                IF s1.failure_count > threshold
                THEN [ s1 EXCEPT !.state = "Open" ]
                ELSE s1
          [] s.state = "HalfOpen" ->
                [ s1 EXCEPT !.state = "Open", !.success_count = 0 ]
          [] s.state = "Open" -> s1

\* Mutant: a failure while HalfOpen reopens but keeps the successes counted so far.
M_record_failure_keep(s, t, threshold) ==
    LET s1 == [ s EXCEPT !.failure_count = @ + 1,
                         !.last_failure_time = Some(t) ]
    IN  CASE s.state = "Closed" ->
                IF s1.failure_count >= threshold
                THEN [ s1 EXCEPT !.state = "Open" ]
                ELSE s1
          [] s.state = "HalfOpen" -> [ s1 EXCEPT !.state = "Open" ]
          [] s.state = "Open" -> s1

\* Mutant: a failure is counted and its time is not recorded.
M_record_failure_no_time(s, t, threshold) ==
    LET s1 == [ s EXCEPT !.failure_count = @ + 1 ]
    IN  CASE s.state = "Closed" ->
                IF s1.failure_count >= threshold
                THEN [ s1 EXCEPT !.state = "Open" ]
                ELSE s1
          [] s.state = "HalfOpen" ->
                [ s1 EXCEPT !.state = "Open", !.success_count = 0 ]
          [] s.state = "Open" -> s1

record_failure(s, t, threshold) ==
    LET s1 == [ s EXCEPT !.failure_count = @ + 1,
                         !.last_failure_time = Some(t) ]
    IN  CASE s.state = "Closed" ->
                IF s1.failure_count >= threshold
                THEN [ s1 EXCEPT !.state = "Open" ]
                ELSE s1
          [] s.state = "HalfOpen" ->
                [ s1 EXCEPT !.state = "Open", !.success_count = 0 ]
          [] s.state = "Open" -> s1

\* Mutant: reset closes the breaker and keeps its counters.
M_reset_keep_counts(s) == [ s EXCEPT !.state = "Closed", !.last_failure_time = None ]

reset(s) ==
    [ state |-> "Closed", failure_count |-> 0, success_count |-> 0,
      last_failure_time |-> None ]

get_state(s) == s.state

\* The observation a step leaves: what ran, on which breaker state, what it returned.
Note(op, ret) == last' = [ op |-> op, pre |-> cb, ret |-> ret ]

\* Successes of the current half-open period, counted by the caller.
HoAfter(op, pre, post) ==
    IF post.state = "HalfOpen" /\ pre.state # "HalfOpen" THEN 0
    ELSE IF op = "record_success" /\ pre.state = "HalfOpen" THEN hoSucc + 1
    ELSE hoSucc

restVars == << retryCfg, retryVars, execVars, nonResVars >>

CallIsAvailable ==
    LET r == is_available(cb, now, timeout)
    IN  /\ cb' = r.st
        /\ Note("is_available", r.ret)
        /\ hoSucc' = HoAfter("is_available", cb, r.st)
        /\ UNCHANGED << failure_threshold, timeout, now, consec, restVars >>

CallRecordSuccess ==
    /\ cb' = record_success(cb)
    /\ Note("record_success", TRUE)
    /\ consec' = 0
    /\ hoSucc' = HoAfter("record_success", cb, cb')
    /\ UNCHANGED << failure_threshold, timeout, now, restVars >>

CallRecordFailure ==
    /\ cb.failure_count < MaxFailures
    /\ cb' = record_failure(cb, now, failure_threshold)
    /\ Note("record_failure", TRUE)
    /\ consec' = consec + 1
    /\ hoSucc' = HoAfter("record_failure", cb, cb')
    /\ UNCHANGED << failure_threshold, timeout, now, restVars >>

CallReset ==
    /\ cb' = reset(cb)
    /\ Note("reset", TRUE)
    /\ consec' = 0
    /\ hoSucc' = HoAfter("reset", cb, cb')
    /\ UNCHANGED << failure_threshold, timeout, now, restVars >>

CallGetState ==
    /\ Note("get_state", get_state(cb) = "Closed")
    /\ UNCHANGED << cbVars, consec, hoSucc, restVars >>

\* The clock advances; nothing else does.
Tick ==
    /\ now < MaxTime
    /\ now' = now + 1
    /\ Note("tick", TRUE)
    /\ UNCHANGED << cb, failure_threshold, timeout, consec, hoSucc, restVars >>

\* a caller that is inside no statement-by-statement call
IdleIns ==
    [ op |-> "none", stage |-> "", m |-> "", v |-> 0, ts |-> 0, before |-> None,
      ret |-> None, todo |-> {}, cur |-> {} ]

\* no caller is inside such a call
ConcIdle ==
    /\ icall = [ t \in Tasks |-> IdleIns ]
    /\ collide = FALSE

ObsInit ==
    /\ last = [ op |-> "new", pre |-> new, ret |-> TRUE ]
    /\ consec = 0
    /\ hoSucc = 0

RetryIdle ==
    /\ max_attempts = 3 /\ initial_delay = 100 /\ multiplier10 = 20
    /\ rpc = [ t \in Tasks |-> "none" ]
    /\ attempts = [ t \in Tasks |-> 0 ]
    /\ delay = [ t \in Tasks |-> 0 ]
    /\ results = [ t \in Tasks |-> << >> ]
    /\ slept = [ t \in Tasks |-> << >> ]

ExecIdle ==
    /\ pc = [ t \in Tasks |-> "idle" ]
    /\ checkedAt = [ t \in Tasks |-> None ]
    /\ recorded = [ t \in Tasks |-> << >> ]
    /\ openInvoke = [ t \in Tasks |-> FALSE ]

\* AnomalyDetector::new: no baseline, no anomaly; nothing checked yet.
AnomIdle ==
    /\ sensitivity10 = 5
    /\ baselines = [ m \in Metrics |-> None ]
    /\ anomalies = [ m \in Metrics |-> None ]
    /\ clock = 0
    /\ made = 0
    /\ fed = [ m \in Metrics |-> 0 ]
    /\ lastCheck = None
    /\ aret = None
    /\ astream = [ m \in Metrics |-> << >> ]

\* a caller that is inside no PredictionEngine call
IdleCall ==
    [ op |-> "none", stage |-> "", m |-> "", steps |-> 0, points |-> << >>,
      ver |-> 0, floor |-> 0, cutoff |-> 0, todo |-> {} ]

\* PredictionEngine::new: no time series, no cached forecast
PredIdle ==
    /\ history_size = MinHistory + 1
    /\ time_series = [ m \in Metrics |-> None ]
    /\ predictions = [ m \in Metrics |-> None ]
    /\ pnow = 0
    /\ padds = 0
    /\ pcall = [ t \in Tasks |-> IdleCall ]
    /\ pver = [ m \in Metrics |-> 0 ]
    /\ pdone = [ m \in Metrics |-> 0 ]
    /\ plast = None
    /\ pseen = [ q |-> None, ret |-> None, foreign |-> FALSE, same |-> TRUE, was_foreign |-> FALSE ]
    /\ pstream = [ m \in Metrics |-> << >> ]
    /\ pcleaned = [ m \in Metrics |-> FALSE ]

\* a caller that is inside no add_event call
NoAdd == [ stage |-> "none", event |-> None ]

\* CorrelationEngine::new: no event, no correlation set, no pattern
CorrIdle ==
    /\ events = [ id \in { "e1", "e2", "e3" } |-> None ]
    /\ correlations = [ c \in { "c1", "c2" } |-> None ]
    /\ patterns = [ key \in { "LlmObservatory", "LlmSentinel" } \X { "LlmObservatory", "LlmSentinel" } |-> None ]
    /\ cnow = 0
    /\ cadds = 0
    /\ cticks = 0
    /\ ccall = [ t \in Tasks |-> NoAdd ]
    /\ clast = None
    /\ cindexed = {}
    /\ cevicted = FALSE

\* no publish_batch call was made
NoPublish ==
    [ stage |-> "idle", events |-> << >>, mode |-> "on_await", next |-> 1, outcomes |-> << >>,
      ret |-> None, calls |-> 0, before |-> << >> ]

\* EventIngester::new: an empty channel; the consumer loop has received nothing
IngIdle ==
    /\ lpc = "Receiving"
    /\ batch = << >>
    /\ draining = << >>
    /\ channel = << >>
    /\ buffer_size = 1
    /\ rx_open = TRUE
    /\ message_count = 0
    /\ lmsgs = 0
    /\ accepted = << >>
    /\ queued = << >>
    /\ llast = [ kind |-> "none", prev |-> "none", slept |-> 0 ]
    /\ publish = NoPublish
    /\ topic = << >>

\* CircuitBreaker::new(failure_threshold, timeout_seconds)
InitCB ==
    /\ cb = new
    /\ failure_threshold \in 1..MaxThreshold
    /\ timeout \in 0..MaxTimeout
    /\ now = 0
    /\ ObsInit /\ ConcIdle
    /\ RetryIdle
    /\ ExecIdle
    /\ AnomIdle
    /\ PredIdle
    /\ CorrIdle /\ IngIdle

NextCB ==
    \/ CallIsAvailable
    \/ CallRecordSuccess
    \/ CallRecordFailure
    \/ CallReset
    \/ CallGetState
    \/ Tick

SpecCB == InitCB /\ [][NextCB]_vars

(***************************************************************************)
(* RetryPolicy (src/resilience/retry.rs) and execute_with_resilience       *)
(* (src/resilience/mod.rs).  The multiplier is held in tenths.             *)
(***************************************************************************)
InitialDelays == { 100, 40000 }
Multipliers10 == { 5, 20 }

Min(a, b) == IF a <= b THEN a ELSE b
Max(a, b) == IF a >= b THEN a ELSE b

\* Duration::from_millis((delay.as_millis() as f64 * self.multiplier) as u64).min(self.max_delay)
\* (`as u64` truncates and saturates at 0)
next_delay(d, m10) ==
    LET scaled == IF d * m10 < 0 THEN 0 ELSE (d * m10) \div 10
    IN  Min(scaled, MaxDelayMs)

\* Operation invocations made so far by the current execute call of t.
Invocations(t) == Len(results[t]) + (IF rpc[t] = "await" THEN 1 ELSE 0)

\* The breaker is Open and its timeout has not elapsed.
Blocked(s) ==
    /\ s.state = "Open"
    /\ ~(s.last_failure_time # None /\ now - s.last_failure_time[1] > timeout)

\* execute: `let mut attempts = 0; let mut delay = self.initial_delay;`
execute_begin(t) ==
    /\ rpc' = [ rpc EXCEPT ![t] = "attempt" ]
    /\ attempts' = [ attempts EXCEPT ![t] = 0 ]
    /\ delay' = [ delay EXCEPT ![t] = initial_delay ]
    /\ results' = [ results EXCEPT ![t] = << >> ]
    /\ slept' = [ slept EXCEPT ![t] = << >> ]

execute_clear(t) ==
    /\ rpc' = [ rpc EXCEPT ![t] = "none" ]
    /\ attempts' = [ attempts EXCEPT ![t] = 0 ]
    /\ delay' = [ delay EXCEPT ![t] = 0 ]
    /\ results' = [ results EXCEPT ![t] = << >> ]
    /\ slept' = [ slept EXCEPT ![t] = << >> ]

\* Mutant: execute allows one attempt more than max_attempts.
M_after_failure_extra(n, max) == IF n > max THEN "err" ELSE "sleep"

\* Where execute goes when an attempt fails: give up or back off.
after_failure(n, max) == IF n >= max THEN "err" ELSE "sleep"

\* A direct caller calls RetryPolicy::execute.
RetryCall(t) ==
    /\ pc[t] = "idle" /\ rpc[t] = "none"
    /\ execute_begin(t)
    /\ UNCHANGED << cbVars, obsVars, retryCfg, nonResVars, execVars >>

\* `attempts += 1; operation()`: the operation is invoked.
RetryInvoke(t) ==
    /\ rpc[t] = "attempt"
    /\ attempts' = [ attempts EXCEPT ![t] = @ + 1 ]
    /\ rpc' = [ rpc EXCEPT ![t] = "await" ]
    /\ openInvoke' = [ openInvoke EXCEPT ![t] = @ \/ Blocked(cb) ]
    /\ UNCHANGED << cbVars, obsVars, retryCfg, nonResVars, delay, results, slept,
                    pc, checkedAt, recorded >>

\* `.await` of the operation's future: it resolves to Ok or Err.
RetryComplete(t) ==
    /\ rpc[t] = "await"
    /\ \E ok \in BOOLEAN :
        /\ results' = [ results EXCEPT ![t] = Append(@, ok) ]
        /\ rpc' = [ rpc EXCEPT ![t] =
                        IF ok THEN "ok" ELSE after_failure(attempts[t], max_attempts) ]
    /\ UNCHANGED << cbVars, obsVars, retryCfg, nonResVars, attempts, delay, slept, execVars >>

\* `sleep(delay).await`, then the exponential backoff of `delay`.
RetrySleep(t) ==
    /\ rpc[t] = "sleep"
    /\ slept' = [ slept EXCEPT ![t] = Append(@, delay[t]) ]
    /\ delay' = [ delay EXCEPT ![t] = next_delay(@, multiplier10) ]
    /\ rpc' = [ rpc EXCEPT ![t] = "attempt" ]
    /\ UNCHANGED << cbVars, obsVars, retryCfg, nonResVars, attempts, results, execVars >>

\* execute has returned to its direct caller.
RetryReturn(t) ==
    /\ pc[t] = "idle" /\ rpc[t] \in { "ok", "err" }
    /\ execute_clear(t)
    /\ UNCHANGED << cbVars, obsVars, retryCfg, nonResVars, execVars >>

\* RetryPolicy::new(max_attempts, initial_delay_ms, multiplier)
InitRetry ==
    /\ cb = new /\ failure_threshold = 5 /\ timeout = 60 /\ now = 0
    /\ ObsInit /\ ConcIdle
    /\ max_attempts \in 0..MaxAttempts
    /\ initial_delay \in InitialDelays
    /\ multiplier10 \in Multipliers10
    /\ rpc = [ t \in Tasks |-> "none" ]
    /\ attempts = [ t \in Tasks |-> 0 ]
    /\ delay = [ t \in Tasks |-> 0 ]
    /\ results = [ t \in Tasks |-> << >> ]
    /\ slept = [ t \in Tasks |-> << >> ]
    /\ ExecIdle
    /\ AnomIdle
    /\ PredIdle
    /\ CorrIdle /\ IngIdle

NextRetry ==
    \E t \in Tasks :
        \/ RetryCall(t)
        \/ RetryInvoke(t)
        \/ RetryComplete(t)
        \/ RetrySleep(t)
        \/ RetryReturn(t)

SpecRetry == InitRetry /\ [][NextRetry]_vars

\* Every started step of execute is eventually taken: the runtime polls the
\* future, each attempt resolves and each sleep ends.
FairRetry ==
    /\ SpecRetry
    /\ \A t \in Tasks :
        WF_vars(RetryInvoke(t)) /\ WF_vars(RetryComplete(t)) /\ WF_vars(RetrySleep(t))

\* execute_with_resilience: the availability check, then either the bail or the
\* call of retry_policy.execute.
ExecStart(t) ==
    LET r == is_available(cb, now, timeout)
    IN  /\ pc[t] = "idle" /\ rpc[t] = "none"
        /\ cb' = r.st
        /\ checkedAt' = [ checkedAt EXCEPT ![t] =
                            Some([ state |-> cb.state, blocked |-> Blocked(cb) ]) ]
        /\ recorded' = [ recorded EXCEPT ![t] = << >> ]
        /\ openInvoke' = [ openInvoke EXCEPT ![t] = FALSE ]
        /\ IF r.ret
           THEN /\ pc' = [ pc EXCEPT ![t] = "retrying" ]
                /\ execute_begin(t)
           ELSE /\ pc' = [ pc EXCEPT ![t] = "rejected" ]
                /\ UNCHANGED retryVars
        /\ UNCHANGED << failure_threshold, timeout, now, obsVars, retryCfg, nonResVars >>

RECURSIVE RecordFailures(_, _)
RecordFailures(s, k) ==
    IF k = 0 THEN s
    ELSE RecordFailures(record_failure(s, now, failure_threshold), k - 1)

\* Mutant: a failed call records one failure per failed attempt.
M_ExecRecord_perAttempt(t) ==
    /\ pc[t] = "retrying" /\ rpc[t] \in { "ok", "err" }
    /\ rpc[t] = "err" => cb.failure_count < MaxFailures
    /\ cb' = IF rpc[t] = "ok" THEN record_success(cb)
             ELSE RecordFailures(cb, Len(results[t]))
    /\ recorded' = [ recorded EXCEPT ![t] =
                        Append(@, [ outcome |-> IF rpc[t] = "ok" THEN "success" ELSE "failure",
                                    before |-> cb.failure_count,
                                    after |-> cb'.failure_count,
                                    pre |-> cb.state ]) ]
    /\ pc' = [ pc EXCEPT ![t] = "done" ]
    /\ UNCHANGED << failure_threshold, timeout, now, obsVars, retryCfg, nonResVars, retryVars,
                    checkedAt, openInvoke >>

\* `match &result { Ok(_) => record_success, Err(_) => record_failure }`
ExecRecord(t) ==
    /\ pc[t] = "retrying" /\ rpc[t] \in { "ok", "err" }
    /\ rpc[t] = "err" => cb.failure_count < MaxFailures
    /\ cb' = IF rpc[t] = "ok" THEN record_success(cb)
             ELSE record_failure(cb, now, failure_threshold)
    /\ recorded' = [ recorded EXCEPT ![t] =
                        Append(@, [ outcome |-> IF rpc[t] = "ok" THEN "success" ELSE "failure",
                                    before |-> cb.failure_count,
                                    after |-> cb'.failure_count,
                                    pre |-> cb.state ]) ]
    /\ pc' = [ pc EXCEPT ![t] = "done" ]
    /\ UNCHANGED << failure_threshold, timeout, now, obsVars, retryCfg, nonResVars, retryVars,
                    checkedAt, openInvoke >>

\* execute_with_resilience has returned; the caller may call again.
ExecReturn(t) ==
    /\ pc[t] \in { "done", "rejected" }
    /\ pc' = [ pc EXCEPT ![t] = "idle" ]
    /\ checkedAt' = [ checkedAt EXCEPT ![t] = None ]
    /\ recorded' = [ recorded EXCEPT ![t] = << >> ]
    /\ openInvoke' = [ openInvoke EXCEPT ![t] = FALSE ]
    /\ execute_clear(t)
    /\ UNCHANGED << cbVars, obsVars, retryCfg, nonResVars >>

\* The clock advances while calls are in flight.
ExecTick ==
    /\ now < MaxTime
    /\ now' = now + 1
    /\ UNCHANGED << cb, failure_threshold, timeout, obsVars, retryCfg, nonResVars, retryVars, execVars >>

InitExec ==
    /\ cb = new
    /\ failure_threshold \in 1..MaxExecThreshold
    /\ timeout \in 0..MaxTimeout
    /\ now = 0
    /\ ObsInit /\ ConcIdle
    /\ max_attempts \in 0..MaxExecAttempts
    /\ initial_delay = 100 /\ multiplier10 = 20
    /\ rpc = [ t \in Tasks |-> "none" ]
    /\ attempts = [ t \in Tasks |-> 0 ]
    /\ delay = [ t \in Tasks |-> 0 ]
    /\ results = [ t \in Tasks |-> << >> ]
    /\ slept = [ t \in Tasks |-> << >> ]
    /\ ExecIdle
    /\ AnomIdle
    /\ PredIdle
    /\ CorrIdle /\ IngIdle

NextExec ==
    \/ ExecTick
    \/ \E t \in Tasks :
        \/ ExecStart(t)
        \/ RetryInvoke(t)
        \/ RetryComplete(t)
        \/ RetrySleep(t)
        \/ ExecRecord(t)
        \/ ExecReturn(t)

SpecExec == InitExec /\ [][NextExec]_vars

(***************************************************************************)
(* AnomalyDetector (src/analytics/anomaly.rs).                             *)
(*                                                                         *)
(* Values are integers, so the f64 statistics are exact rationals: with    *)
(* n values of sum S and sum of squares Q, mean = S/n and the sample        *)
(* variance is D/(n(n-1)) with D = n*Q - S*S.  Comparisons of the z-score   *)
(* with a threshold are decided on these integers; the z-score itself is    *)
(* kept as the fraction of its square.  Thresholds are held in tenths.      *)
(***************************************************************************)
Values == { 100, 250 }
Sensitivities10 == { 0, 5, 10 }

RECURSIVE SumRange(_, _, _)
\* vs[lo] + ... + vs[hi], summed by halves
SumRange(vs, lo, hi) ==
    IF lo > hi THEN 0
    ELSE IF lo = hi THEN vs[lo]
    ELSE SumRange(vs, lo, (lo + hi) \div 2) + SumRange(vs, (lo + hi) \div 2 + 1, hi)

Sum(vs) == SumRange(vs, 1, Len(vs))

SumSq(vs) == Sum([ i \in 1..Len(vs) |-> vs[i] * vs[i] ])

Abs(x) == IF x < 0 THEN -x ELSE x

Repeat(v, k) == [ i \in 1..k |-> v ]

\* MetricBaseline::new(max_size)
MetricBaseline_new(max_size) ==
    [ values |-> << >>, timestamps |-> << >>, max_size |-> max_size ]

\* MetricBaseline::add_value
add_value(b, value, timestamp) ==
    LET full == Len(b.values) >= b.max_size
        vs == IF full THEN Tail(b.values) ELSE b.values
        ts == IF full THEN Tail(b.timestamps) ELSE b.timestamps
    IN  [ b EXCEPT !.values = Append(vs, value),
                   !.timestamps = Append(ts, timestamp) ]

\* MetricBaseline::calculate_mean, as the fraction num/den
calculate_mean(b) ==
    IF b.values = << >> THEN [ num |-> 0, den |-> 1 ]
    ELSE [ num |-> Sum(b.values), den |-> Len(b.values) ]

\* n*Q - S*S: n(n-1) times the sample variance of the window
Dispersion(b) ==
    Len(b.values) * SumSq(b.values) - Sum(b.values) * Sum(b.values)

\* calculate_stddev: the `values.len() < 2` early return of 1.0
Degenerate(b) == Len(b.values) < 2

\* calculate_stddev floors the deviation at 0.0001: the variance D/(n(n-1)) is
\* below 1e-8, that is D * 10^8 < n(n-1)
Floored(b) ==
    LET n == Len(b.values)
    IN  Dispersion(b) <= (n * (n - 1) - 1) \div 100000000

RECURSIVE GCD(_, _)
GCD(a, b) == IF b = 0 THEN a ELSE GCD(b, a % b)

RECURSIVE GCDRange(_, _, _)
\* the greatest common divisor of |vs[lo]|, ..., |vs[hi]|, taken by halves
GCDRange(vs, lo, hi) ==
    IF lo > hi THEN 0
    ELSE IF lo = hi THEN Abs(vs[lo])
    ELSE GCD(GCDRange(vs, lo, (lo + hi) \div 2), GCDRange(vs, (lo + hi) \div 2 + 1, hi))

GCDAll(vs) == GCDRange(vs, 1, Len(vs))

\* A common unit of the window's values.  n*value - S is a multiple of it and D a
\* multiple of its square, so both sides of a z-score comparison are divided by
\* the square of the unit, which keeps the products within 32 bits.
Unit(b) == IF GCDAll(b.values) = 0 THEN 1 ELSE GCDAll(b.values)

\* `(value - mean).abs() / stddev > k`, for k = k10/10 >= 0
ZAbove(b, value, k10) ==
    LET n == Len(b.values)
        dev == Abs(n * value - Sum(b.values))
        devU == dev \div Unit(b)
        DU == Dispersion(b) \div (Unit(b) * Unit(b))
    IN  IF Degenerate(b) THEN dev * 10 > k10 * n
        ELSE IF Floored(b) THEN dev * 100000 > k10 * n
        ELSE 100 * (n - 1) * devU * devU > k10 * k10 * n * DU

\* the z-score, as the fraction of its square (`floored`: the denominator is to be
\* multiplied by 1e-8, the square of the floor)
z_score(b, value) ==
    LET n == Len(b.values)
        dev == Abs(n * value - Sum(b.values))
        devU == dev \div Unit(b)
        DU == Dispersion(b) \div (Unit(b) * Unit(b))
    IN  IF Degenerate(b) THEN [ sq_num |-> dev * dev, sq_den |-> n * n, floored |-> FALSE ]
        ELSE IF Floored(b) THEN [ sq_num |-> dev * dev, sq_den |-> n * n, floored |-> TRUE ]
        ELSE [ sq_num |-> (n - 1) * devU * devU, sq_den |-> n * DU, floored |-> FALSE ]

\* get_threshold_for_sensitivity: 3.0 - sensitivity * 2.0, in tenths
get_threshold_for_sensitivity(s10) == 30 - 2 * s10

\* classify_anomaly: `baseline` already holds `value` as its newest element
classify_anomaly(value, mean, b) ==
    IF value * mean.den > mean.num
    THEN IF b.values # << >> /\ 2 * value > 3 * b.values[Len(b.values)]
         THEN "Spike" ELSE "HighValue"
    ELSE IF b.values # << >> /\ 2 * value < b.values[Len(b.values)]
         THEN "Drop" ELSE "LowValue"

\* calculate_severity
calculate_severity(b, value) ==
    IF ZAbove(b, value, 50) THEN "Critical"
    ELSE IF ZAbove(b, value, 40) THEN "High"
    ELSE IF ZAbove(b, value, 30) THEN "Medium"
    ELSE "Low"

\* `.entry(metric_name).or_insert_with(..)`
or_insert(opt, dflt) == IF opt = None THEN dflt ELSE opt[1]

\* Mutant: the warm-up ends one data point early.
M_WarmingUp_short(b) == Len(b.values) < WarmUp - 1

\* the warm-up test of check_anomaly
WarmingUp(b) == Len(b.values) < WarmUp

\* check_anomaly, lines 49-87: the Option<Anomaly> found on the window b, which already
\* holds the value
verdict(b, metric_name, value, timestamp, s10) ==
    LET mean == calculate_mean(b)
    IN  IF WarmingUp(b) THEN None
        ELSE IF ZAbove(b, value, get_threshold_for_sensitivity(s10))
        THEN Some([ metric_name |-> metric_name,
                    timestamp |-> timestamp,
                    value |-> value,
                    expected_value |-> mean,
                    deviation |-> z_score(b, value),
                    anomaly_type |-> classify_anomaly(value, mean, b),
                    severity |-> calculate_severity(b, value) ])
        ELSE None

\* check_anomaly: the window it leaves and the Option<Anomaly> it returns
check_anomaly(opt, metric_name, value, timestamp, s10) ==
    LET b == add_value(or_insert(opt, MetricBaseline_new(BaselineCapacity)), value, timestamp)
    IN  [ baseline |-> b, ret |-> verdict(b, metric_name, value, timestamp, s10) ]

\* A caller checks a data point, stamped with the current time.
CheckAnomaly(m, v) ==
    LET r == check_anomaly(baselines[m], m, v, clock + 1, sensitivity10)
        old == or_insert(baselines[m], MetricBaseline_new(BaselineCapacity))
    IN  /\ made < MaxChecks
        /\ made' = made + 1
        /\ clock' = clock + 1
        /\ baselines' = [ baselines EXCEPT ![m] = Some(r.baseline) ]
        /\ anomalies' =
                IF r.ret = None THEN anomalies
                ELSE [ anomalies EXCEPT ![m] = Some(Append(or_insert(@, << >>), r.ret[1])) ]
        /\ fed' = [ fed EXCEPT ![m] = @ + 1 ]
        /\ astream' = [ astream EXCEPT ![m] = Append(@, << v, clock + 1 >>) ]
        /\ lastCheck' = Some([ metric |-> m, value |-> v,
                               nth |-> fed[m] + 1,
                               before |-> old.values,
                               log_before |-> anomalies[m],
                               ret |-> r.ret ])
        /\ aret' = None
        /\ UNCHANGED << sensitivity10, nonAnomVars >>

\* a mutant of reset_baseline that clears the whole map
M_reset_baseline_all(bs, m) == [ x \in Metrics |-> None ]

\* reset_baseline: `self.baselines.remove(metric_name)`
reset_baseline(bs, m) == [ bs EXCEPT ![m] = None ]

\* A caller resets the baseline of a metric that has one.
ResetBaseline(m) ==
    /\ baselines[m] # None
    /\ baselines' = reset_baseline(baselines, m)
    /\ fed' = [ fed EXCEPT ![m] = 0 ]
    /\ astream' = [ astream EXCEPT ![m] = << >> ]
    /\ lastCheck' = None
    /\ aret' = None
    /\ UNCHANGED << sensitivity10, anomalies, clock, made, nonAnomVars >>

\* A detector some of whose metrics already received k equal values, k <= MaxPrefill:
\* each of those checks returned no anomaly (a window of equal values has z-score 0).
InitAnomaly ==
    /\ cb = new /\ failure_threshold = 5 /\ timeout = 60 /\ now = 0
    /\ ObsInit /\ ConcIdle /\ RetryIdle /\ ExecIdle
    /\ sensitivity10 \in Sensitivities10
    /\ \E k \in 0..MaxPrefill, v \in Values :
        /\ baselines = [ m \in Metrics |->
                            IF m = "latency" /\ k > 0
                            THEN Some([ values |-> Repeat(v, k),
                                        timestamps |-> [ i \in 1..k |-> i ],
                                        max_size |-> BaselineCapacity ])
                            ELSE None ]
        /\ clock = k
        /\ fed = [ m \in Metrics |-> IF m = "latency" THEN k ELSE 0 ]
        /\ astream = [ m \in Metrics |->
                          IF m = "latency" THEN [ i \in 1..k |-> << v, i >> ] ELSE << >> ]
    /\ anomalies = [ m \in Metrics |-> None ]
    /\ made = 0
    /\ lastCheck = None
    /\ aret = None
    /\ PredIdle
    /\ CorrIdle /\ IngIdle

NextAnomaly ==
    \E m \in Metrics :
        \/ \E v \in Values : CheckAnomaly(m, v)
        \/ ResetBaseline(m)

SpecAnomaly == InitAnomaly /\ [][NextAnomaly]_vars

(***************************************************************************)
(* The anomaly log and its retrieval by metric.                            *)
(***************************************************************************)
Limits == 0..MaxLimit

\* a mutant of get_anomalies that takes the oldest anomalies
M_get_anomalies_oldest(log, limit) ==
    IF log = None THEN << >>
    ELSE SubSeq(log[1], 1, Min(limit, Len(log[1])))

\* get_anomalies: `.iter().rev().take(limit).cloned().collect()`, or the empty vector
get_anomalies(log, limit) ==
    IF log = None THEN << >>
    ELSE LET n == Len(log[1])
         IN  [ i \in 1..Min(limit, n) |-> log[1][n - i + 1] ]

\* A caller retrieves the recent anomalies of a metric.
GetAnomalies(m, limit) ==
    /\ aret' = Some([ metric |-> m, limit |-> limit, ret |-> get_anomalies(anomalies[m], limit) ])
    /\ UNCHANGED << sensitivity10, baselines, anomalies, clock, made, fed, lastCheck, astream,
                    nonAnomVars >>

\* A detector none of whose metrics was checked yet, or one of whose metrics is through
\* its warm-up with equal values.
InitLog ==
    /\ InitAnomaly
    /\ fed["latency"] \in { 0, WarmUp }

NextLog ==
    \/ NextAnomaly
    \/ \E m \in Metrics, limit \in Limits : GetAnomalies(m, limit)

SpecLog == InitLog /\ [][NextLog]_vars

(***************************************************************************)
(* The detector fed an oscillating metric with one injected outlier: the   *)
(* end-to-end scenario, with a run as long as the bounds allow.  The       *)
(* window never fills, so the outlier stays in it to the end of the run.   *)
(***************************************************************************)

\* the value at (0-based) index i of the oscillation between 90 and 110
Oscillation(i) == IF i % 2 = 0 THEN 90 ELSE 110

Outliers == { 250 }

\* the outlier has been fed
Injected == \E i \in 1..Len(astream["latency"]) : astream["latency"][i][1] \in Outliers

\* the next value of the run: the oscillation, or the outlier in its place if not fed yet
Ingest ==
    \E v \in { Oscillation(fed["latency"]) } \cup (IF Injected THEN {} ELSE Outliers) :
        CheckAnomaly("latency", v)

\* The detector after the first k values of the oscillation, k past the warm-up: their
\* z-scores stay below 1, the lowest threshold, so none of them was an anomaly.
InitIngest ==
    /\ cb = new /\ failure_threshold = 5 /\ timeout = 60 /\ now = 0
    /\ ObsInit /\ ConcIdle /\ RetryIdle /\ ExecIdle /\ PredIdle /\ CorrIdle /\ IngIdle
    /\ sensitivity10 \in Sensitivities10
    /\ \E k \in (WarmUp + 2)..MaxPrefill :
        /\ baselines = [ m \in Metrics |->
                            IF m = "latency"
                            THEN Some([ values |-> [ i \in 1..k |-> Oscillation(i - 1) ],
                                        timestamps |-> [ i \in 1..k |-> i ],
                                        max_size |-> BaselineCapacity ])
                            ELSE None ]
        /\ clock = k
        /\ fed = [ m \in Metrics |-> IF m = "latency" THEN k ELSE 0 ]
        /\ astream = [ m \in Metrics |->
                          IF m = "latency" THEN [ i \in 1..k |-> << Oscillation(i - 1), i >> ]
                          ELSE << >> ]
    /\ anomalies = [ m \in Metrics |-> None ]
    /\ made = 0
    /\ lastCheck = None
    /\ aret = None

SpecIngest == InitIngest /\ [][Ingest]_vars

(***************************************************************************)
(* PredictionEngine (src/analytics/prediction.rs)                          *)
(*                                                                         *)
(* Times are whole seconds.  A forecast value is kept exactly, as the pair *)
(* of fractions (trend, seasonal) whose sum the code rounds to an f64; the *)
(* smoothing factor is counted in halves so that the smoothed value is an  *)
(* exact fraction too.  A DashMap guard is modelled per key: the `ts_data` *)
(* guard of predict_arima lives until the function returns, and a writer   *)
(* of the same time series waits for it.                                   *)
(***************************************************************************)

PredValues == { 100, 250 }
StepsAhead == { 1, 2 }
AlphaHalves == { 1 }
RetentionHours == { 0 }
HistorySizes == { MaxHistory, MinHistory + 1 }

Frac(n, d) == [ num |-> n, den |-> d ]

Ok(points) == [ ok |-> TRUE, points |-> points, err |-> "" ]
Err(e) == [ ok |-> FALSE, points |-> << >>, err |-> e ]

\* TimeSeriesData::new
TimeSeriesData_new(max_size) == [ values |-> << >>, timestamps |-> << >>, max_size |-> max_size ]

\* a mutant of add_point that never evicts
M_add_point_grow(d, value, timestamp) ==
    [ d EXCEPT !.values = Append(@, value), !.timestamps = Append(@, timestamp) ]

\* TimeSeriesData::add_point: pop_front on a full window (a no-op on an empty one), then push_back
add_point(d, value, timestamp) ==
    LET full == Len(d.values) >= d.max_size
        vs == IF full /\ d.values # << >> THEN Tail(d.values) ELSE d.values
        ts == IF full /\ d.timestamps # << >> THEN Tail(d.timestamps) ELSE d.timestamps
    IN  [ d EXCEPT !.values = Append(vs, value), !.timestamps = Append(ts, timestamp) ]

RECURSIVE cleanup_before(_, _)
\* TimeSeriesData::cleanup_before: drop from the front while the front is older than the cutoff
cleanup_before(d, cutoff) ==
    IF d.timestamps # << >> /\ Head(d.timestamps) < cutoff
    THEN cleanup_before([ d EXCEPT !.values = Tail(@), !.timestamps = Tail(@) ], cutoff)
    ELSE d

\* a mutant of is_valid that never expires
M_is_valid_forever(c, t) == TRUE

\* a mutant of the validity test under which every cached forecast has expired
M_is_valid_never(c, t) == FALSE

\* a mutant of the validity test that still serves a forecast whose age equals the TTL
M_is_valid_late(c, t) == t - c.created_at <= c.ttl_seconds

\* CachedPrediction::is_valid at time t
is_valid(c, t) == t - c.created_at < c.ttl_seconds

RECURSIVE WeightedSum(_, _)
\* sum of i * y over enumerate(), i counted from 0, over the first k values
WeightedSum(vs, k) == IF k = 0 THEN 0 ELSE (k - 1) * vs[k] + WeightedSum(vs, k - 1)

RECURSIVE SumTo(_), SumSqTo(_)
\* 0 + 1 + ... + (n-1) and 0^2 + ... + (n-1)^2
SumTo(n) == IF n = 0 THEN 0 ELSE (n - 1) + SumTo(n - 1)
SumSqTo(n) == IF n = 0 THEN 0 ELSE (n - 1) * (n - 1) + SumSqTo(n - 1)

\* calculate_trend: least-squares slope and intercept, as exact fractions
calculate_trend(values) ==
    LET n == Len(values)
        x_sum == SumTo(n)
        y_sum == Sum(values)
        xy_sum == WeightedSum(values, n)
        x_squared_sum == SumSqTo(n)
        a == n * xy_sum - x_sum * y_sum
        b == n * x_squared_sum - x_sum * x_sum
    IN  [ slope |-> Frac(a, b), intercept |-> Frac(y_sum * b - a * x_sum, b * n) ]

RECURSIVE StrideSum(_, _, _), StrideCount(_, _, _)
\* the `while j < values.len()` loop of calculate_seasonality, from 0-based index j
StrideSum(vs, j, period) ==
    IF j >= Len(vs) THEN 0 ELSE vs[j + 1] + StrideSum(vs, j + period, period)
StrideCount(vs, j, period) ==
    IF j >= Len(vs) THEN 0 ELSE 1 + StrideCount(vs, j + period, period)

LCM(a, b) == (a * b) \div GCD(a, b)

RECURSIVE LCMAll(_)
LCMAll(cs) == IF cs = << >> THEN 1 ELSE LCM(Head(cs), LCMAll(Tail(cs)))

\* calculate_seasonality: per-phase averages minus their mean, over a common denominator
calculate_seasonality(values) ==
    LET period == Min(24, Len(values) \div 2)
        sum == [ i \in 1..period |-> StrideSum(values, i - 1, period) ]
        count == [ i \in 1..period |-> StrideCount(values, i - 1, period) ]
        l == LCMAll(count)
        scaled == [ i \in 1..period |-> sum[i] * (l \div count[i]) ]
    IN  [ i \in 1..period |-> Frac(period * scaled[i] - Sum(scaled), l * period) ]

\* calculate_confidence: (0.95 - 0.05 * step / total_steps).max(0.5)
calculate_confidence(step, total_steps) ==
    LET c == Frac(95 * total_steps - 5 * step, 100 * total_steps)
    IN  IF 2 * c.num < c.den THEN Frac(1, 2) ELSE c

\* a mutant of the forecast that stamps its points from the clock, not from the history
M_arima_forecast_clock(ts_data, steps_ahead) ==
    [ i \in 1..steps_ahead |->
        [ timestamp |-> pnow + 60 * i,
          value |-> [ trend |-> Frac(0, 1), seasonal |-> Frac(0, 1) ],
          confidence |-> Frac(1, 1),
          lower_bound |-> Frac(0, 1),
          upper_bound |-> Frac(0, 1) ] ]

\* arima_forecast: one point per step, a minute apart after the last timestamp
arima_forecast(ts_data, steps) ==
    LET values == ts_data.values
        last_timestamp == ts_data.timestamps[Len(ts_data.timestamps)]
        t == calculate_trend(values)
        seasonal == calculate_seasonality(values)
        n == Len(values)
    IN  [ i \in 1..steps |->
            LET confidence == calculate_confidence(i, steps)
            IN  [ timestamp |-> last_timestamp + 60 * i,
                  value |-> [ trend |-> Frac(t.slope.num * n * (n + i) + t.intercept.num,
                                             t.intercept.den),
                              seasonal |-> seasonal[((n + i) % Len(seasonal)) + 1] ],
                  confidence |-> confidence,
                  lower_bound |-> Frac(9 * confidence.den + confidence.num, 10 * confidence.den),
                  upper_bound |-> Frac(11 * confidence.den - confidence.num, 10 * confidence.den) ] ]

\* a mutant of the smoothing loop that stays at the first value
M_Smooth_first(smoothed, rest, alpha2) == smoothed

RECURSIVE Smooth(_, _, _)
\* the smoothing loop: smoothed = alpha * value + (1 - alpha) * smoothed, alpha = alpha2 / 2
Smooth(smoothed, rest, alpha2) ==
    IF rest = << >> THEN smoothed
    ELSE Smooth(Frac(alpha2 * Head(rest) * smoothed.den + (2 - alpha2) * smoothed.num,
                     2 * smoothed.den),
                Tail(rest), alpha2)

\* predict_exponential_smoothing, on the entry found for the metric
predict_exponential_smoothing(opt, steps_ahead, alpha2) ==
    IF opt = None THEN Err("UnknownMetric")
    ELSE IF opt[1].values = << >> THEN Err("NoData")
    ELSE LET values == opt[1].values
             last_timestamp == opt[1].timestamps[Len(opt[1].timestamps)]
             smoothed == Smooth(Frac(Head(values), 1), Tail(values), alpha2)
         IN  Ok([ i \in 1..steps_ahead |->
                    [ timestamp |-> last_timestamp + 60 * i,
                      value |-> [ trend |-> smoothed, seasonal |-> Frac(0, 1) ],
                      confidence |-> calculate_confidence(i, steps_ahead),
                      lower_bound |-> Frac(9, 10),
                      upper_bound |-> Frac(11, 10) ] ])

\* a mutant in which the `ts_data` guard is released before the forecast is cached
M_Reading_none(m) == FALSE

\* some predict_arima call holds its `ts_data` read guard on m's time series
Reading(m) ==
    \E t \in Tasks : pcall[t].op = "predict_arima" /\ pcall[t].stage = "computed" /\ pcall[t].m = m

Params(method, steps, alpha2) == [ method |-> method, steps |-> steps, alpha2 |-> alpha2 ]

\* a mutant of the invalidation that leaves the cache alone
M_invalidate_keep(cache, m) == cache

\* add_data_point, line 46: `self.predictions.remove(metric_name)`
invalidate(cache, m) == [ cache EXCEPT ![m] = None ]

\* what is remembered of a call when it returns: its arguments and result, the points the
\* metric held, and the cache entry of the metric before and after
Observe(op, m, steps, alpha2, ret, computed, ver, floor, after) ==
    plast' = Some([ op |-> op, m |-> m, steps |-> steps, alpha2 |-> alpha2, ret |-> ret,
                    computed |-> computed, ver |-> ver, floor |-> floor,
                    held |-> IF time_series[m] = None THEN -1 ELSE Len(time_series[m][1].values),
                    cached_before |-> predictions[m],
                    cached_after |-> after[m],
                    others_kept |-> \A x \in Metrics \ { m } : after[x] = predictions[x] ])

\* predict_arima, lines 57-62: the cache check; a valid entry is returned at once
PredictArimaCheck(t, m, k) ==
    /\ pcall[t].op = "none"
    /\ LET hit == predictions[m] # None /\ is_valid(predictions[m][1], pnow)
       IN  /\ IF hit
              THEN /\ Observe("predict_arima", m, k, 0, Ok(predictions[m][1].points), FALSE,
                       predictions[m][1].ver, pdone[m], predictions)
                   /\ pcall' = pcall
              ELSE /\ pcall' = [ pcall EXCEPT ![t] =
                                   [ IdleCall EXCEPT !.op = "predict_arima", !.stage = "miss",
                                                     !.m = m, !.steps = k, !.floor = pdone[m] ] ]
                   /\ plast' = None
    /\ UNCHANGED << history_size, time_series, predictions, pnow, padds, pver, pdone,
                    pstream, pcleaned, nonPredVars >>

\* predict_arima, lines 64-73: take the time series, refuse a short one, compute the forecast
PredictArimaCompute(t) ==
    LET c == pcall[t]
        opt == time_series[c.m]
        fail(e) ==
            /\ Observe("predict_arima", c.m, c.steps, 0, Err(e), FALSE,
                       pver[c.m], c.floor, predictions)
            /\ pcall' = [ pcall EXCEPT ![t] = IdleCall ]
    IN  /\ c.op = "predict_arima" /\ c.stage = "miss"
        /\ IF opt = None THEN fail("UnknownMetric")
           ELSE IF Len(opt[1].values) < MinHistory THEN fail("InsufficientData")
           ELSE /\ pcall' = [ pcall EXCEPT ![t] =
                                [ c EXCEPT !.stage = "computed",
                                           !.points = arima_forecast(opt[1], c.steps),
                                           !.ver = pver[c.m] ] ]
                /\ plast' = None
        /\ UNCHANGED << history_size, time_series, predictions, pnow, padds, pver, pdone,
                        pstream, pcleaned, nonPredVars >>

\* predict_arima, lines 76-85: cache the forecast, return it, and drop the guard
PredictArimaInsert(t) ==
    LET c == pcall[t]
        cached == [ points |-> c.points, created_at |-> pnow, ttl_seconds |-> CacheTtlSeconds,
                    ver |-> c.ver, steps |-> c.steps ]
    IN  /\ c.op = "predict_arima" /\ c.stage = "computed"
        /\ predictions' = [ predictions EXCEPT ![c.m] = Some(cached) ]
        /\ Observe("predict_arima", c.m, c.steps, 0, Ok(c.points), TRUE,
                       c.ver, c.floor, [ predictions EXCEPT ![c.m] = Some(cached) ])
        /\ pcall' = [ pcall EXCEPT ![t] = IdleCall ]
        /\ UNCHANGED << history_size, time_series, pnow, padds, pver, pdone,
                        pstream, pcleaned, nonPredVars >>

\* predict_exponential_smoothing: one read of the time series, no cache
PredictExponentialSmoothing(t, m, k, a2) ==
    LET ret == predict_exponential_smoothing(time_series[m], k, a2)
    IN  /\ pcall[t].op = "none"
        /\ Observe("predict_exponential_smoothing", m, k, a2, ret, ret.ok,
                       pver[m], pdone[m], predictions)
        /\ UNCHANGED << history_size, time_series, predictions, pnow, padds, pcall, pver, pdone,
                        pstream, pcleaned, nonPredVars >>

\* add_data_point, lines 40-43: entry().or_insert_with(new).add_point(), under the write guard
AddDataPoint(t, m, v, ts) ==
    /\ pcall[t].op = "none"
    /\ padds < MaxAdds
    /\ ~ Reading(m)
    /\ padds' = padds + 1
    /\ time_series' = [ time_series EXCEPT ![m] =
                          Some(add_point(or_insert(@, TimeSeriesData_new(history_size)), v, ts)) ]
    /\ pver' = [ pver EXCEPT ![m] = @ + 1 ]
    /\ pstream' = [ pstream EXCEPT ![m] = Append(@, << v, ts >>) ]
    /\ pcall' = [ pcall EXCEPT ![t] =
                    [ IdleCall EXCEPT !.op = "add_data_point", !.stage = "added", !.m = m,
                                      !.ver = pver[m] + 1 ] ]
    /\ plast' = None
    /\ UNCHANGED << history_size, predictions, pnow, pdone, pcleaned, nonPredVars >>

\* add_data_point, lines 46-48: invalidate the cached forecast and return
AddInvalidate(t) ==
    LET c == pcall[t]
    IN  /\ c.op = "add_data_point" /\ c.stage = "added"
        /\ predictions' = invalidate(predictions, c.m)
        /\ pdone' = [ pdone EXCEPT ![c.m] = Max(@, c.ver) ]
        /\ pcleaned' = [ pcleaned EXCEPT ![c.m] = FALSE ]
        /\ Observe("add_data_point", c.m, 0, 0, Ok(<< >>), FALSE,
                       c.ver, 0, invalidate(predictions, c.m))
        /\ pcall' = [ pcall EXCEPT ![t] = IdleCall ]
        /\ UNCHANGED << history_size, time_series, pnow, padds, pver, pstream, nonPredVars >>

\* cleanup_old_data, line 236: the cutoff is taken once; iter_mut then visits every entry
CleanupStart(t, h) ==
    /\ pcall[t].op = "none"
    /\ \E m \in Metrics : time_series[m] # None
    /\ pcall' = [ pcall EXCEPT ![t] =
                    [ IdleCall EXCEPT !.op = "cleanup_old_data", !.stage = "iterating",
                                      !.cutoff = pnow - 3600 * h,
                                      !.todo = { m \in Metrics : time_series[m] # None } ] ]
    /\ plast' = None
    /\ UNCHANGED << history_size, time_series, predictions, pnow, padds, pver, pdone,
                    pstream, pcleaned, nonPredVars >>

\* cleanup_old_data, lines 238-240: one entry is trimmed under its write guard
CleanupEntry(t) ==
    LET c == pcall[t]
    IN  /\ c.op = "cleanup_old_data"
        /\ \E m \in c.todo :
            LET d == cleanup_before(time_series[m][1], c.cutoff)
            IN  /\ ~ Reading(m)
                /\ time_series' = [ time_series EXCEPT ![m] = Some(d) ]
                /\ pcleaned' = [ pcleaned EXCEPT ![m] = @ \/ d # time_series[m][1] ]
                /\ pcall' = [ pcall EXCEPT ![t] =
                                IF c.todo = { m } THEN IdleCall ELSE [ c EXCEPT !.todo = @ \ { m } ] ]
                /\ plast' = Some([ op |-> "cleanup_old_data", m |-> m, cutoff |-> c.cutoff,
                                   before |-> time_series[m][1], after |-> d ])
        /\ UNCHANGED << history_size, predictions, pnow, padds, pver, pdone,
                        pstream, nonPredVars >>

\* time passes
PredTick ==
    /\ pnow < MaxPredTicks * TickSeconds
    /\ pnow' = pnow + TickSeconds
    /\ plast' = None
    /\ UNCHANGED << history_size, time_series, predictions, padds, pcall, pver, pdone,
                    pstream, pcleaned, nonPredVars >>

RECURSIVE Fill(_, _, _)
\* the time series after k points of value v, the i-th stamped i
Fill(d, k, v) == IF k = 0 THEN d ELSE add_point(Fill(d, k - 1, v), v, k)

\* An engine one of whose metrics already received k points of equal value, a second apart,
\* every add_data_point having returned.
InitPred ==
    /\ cb = new /\ failure_threshold = 5 /\ timeout = 60 /\ now = 0
    /\ ObsInit /\ ConcIdle /\ RetryIdle /\ ExecIdle /\ AnomIdle /\ CorrIdle /\ IngIdle
    /\ history_size \in HistorySizes
    /\ \E k \in (MinHistory - 1)..MaxFill, v \in { 100 } :
        /\ time_series = [ m \in Metrics |->
                             IF m = "latency" /\ k > 0
                             THEN Some(Fill(TimeSeriesData_new(history_size), k, v))
                             ELSE None ]
        /\ pver = [ m \in Metrics |-> IF m = "latency" THEN k ELSE 0 ]
        /\ pdone = [ m \in Metrics |-> IF m = "latency" THEN k ELSE 0 ]
        /\ pstream = [ m \in Metrics |-> IF m = "latency" THEN [ i \in 1..k |-> << v, i >> ]
                                             ELSE << >> ]
    /\ predictions = [ m \in Metrics |-> None ]
    /\ pnow = 0
    /\ padds = 0
    /\ pcall = [ t \in Tasks |-> IdleCall ]
    /\ plast = None
    /\ pseen = [ q |-> None, ret |-> None, foreign |-> FALSE, same |-> TRUE, was_foreign |-> FALSE ]
    /\ pcleaned = [ m \in Metrics |-> FALSE ]

\* the metric whose predict calls are compared
Subject == "latency"

\* no predict call returned for the subject since its last add_data_point
Unseen == [ q |-> None, ret |-> None, foreign |-> FALSE, same |-> TRUE, was_foreign |-> FALSE ]

\* The predict call that returned in this step is remembered: its parameters and result,
\* whether it was answered from a forecast cached for another horizon, and whether it
\* returned what the previous predict call returned when that had the same parameters.
RememberReturn ==
    pseen' = IF plast' # None /\ plast'[1].op # "add_data_point" /\ plast'[1].m = Subject
             THEN LET r == plast'[1]
                      q == Params(r.op, r.steps, r.alpha2)
                  IN  [ q |-> Some(q), ret |-> Some(r.ret),
                        foreign |-> /\ r.op = "predict_arima" /\ r.ret.ok /\ ~ r.computed
                                    /\ r.cached_before[1].steps # r.steps,
                        same |-> pseen.q # Some(q) \/ pseen.ret = Some(r.ret),
                        was_foreign |-> pseen.q = Some(q) /\ pseen.foreign ]
             ELSE pseen

Forget(m) == pseen' = IF m = Subject THEN Unseen ELSE pseen

\* Concurrent callers of predict_arima and add_data_point.
NextPred ==
    \/ \E t \in Tasks, m \in Metrics, k \in StepsAhead : PredictArimaCheck(t, m, k) /\ UNCHANGED pseen
    \/ \E t \in Tasks : PredictArimaCompute(t) /\ UNCHANGED pseen
    \/ \E t \in Tasks : PredictArimaInsert(t) /\ UNCHANGED pseen
    \/ \E t \in Tasks, m \in Metrics, v \in PredValues : AddDataPoint(t, m, v, pnow) /\ UNCHANGED pseen
    \/ \E t \in Tasks : AddInvalidate(t) /\ UNCHANGED pseen
    \/ PredTick /\ UNCHANGED pseen

SpecPred == InitPred /\ [][NextPred]_vars

\* One caller making every call of the engine in turn.
Solo == { "a" }

NextForecast ==
    \E t \in Solo :
        \/ \E m \in Metrics, k \in StepsAhead : PredictArimaCheck(t, m, k) /\ UNCHANGED pseen
        \/ PredictArimaCompute(t) /\ UNCHANGED pseen
        \/ PredictArimaInsert(t) /\ UNCHANGED pseen
        \/ \E m \in Metrics, k \in StepsAhead, a2 \in AlphaHalves :
                PredictExponentialSmoothing(t, m, k, a2) /\ UNCHANGED pseen
        \/ \E m \in Metrics, v \in PredValues : AddDataPoint(t, m, v, pnow) /\ UNCHANGED pseen
        \/ AddInvalidate(t) /\ UNCHANGED pseen
        \/ \E h \in RetentionHours : CleanupStart(t, h) /\ UNCHANGED pseen
        \/ CleanupEntry(t) /\ UNCHANGED pseen
        \/ PredTick /\ UNCHANGED pseen

SpecForecast == InitPred /\ [][NextForecast]_vars

\* The same caller, each predict call for the subject compared with the previous one; the
\* subject starts with enough points for a forecast.
InitRepeat ==
    /\ InitPred
    /\ history_size = MinHistory + 1
    /\ Len(time_series[Subject][1].values) >= MinHistory

NextRepeat ==
    \E t \in Solo :
        \/ \E k \in StepsAhead : PredictArimaCheck(t, Subject, k) /\ RememberReturn
        \/ PredictArimaCompute(t) /\ RememberReturn
        \/ PredictArimaInsert(t) /\ RememberReturn
        \/ \E k \in StepsAhead, a2 \in AlphaHalves :
                PredictExponentialSmoothing(t, Subject, k, a2) /\ RememberReturn
        \/ \E m \in Metrics, v \in PredValues : AddDataPoint(t, m, v, pnow) /\ Forget(m)
        \/ AddInvalidate(t) /\ Forget(pcall[t].m)
        \/ \E h \in RetentionHours : CleanupStart(t, h) /\ UNCHANGED pseen
        \/ CleanupEntry(t) /\ UNCHANGED pseen
        \/ PredTick /\ UNCHANGED pseen

SpecRepeat == InitRepeat /\ [][NextRepeat]_vars

\* how long before the call the timestamp handed to add_data_point lies
Lateness == { 0, 100 }

RECURSIVE Stamped(_, _, _, _)
\* the time series after k points of value v, all stamped ts
Stamped(d, k, v, ts) == IF k = 0 THEN d ELSE add_point(Stamped(d, k - 1, v, ts), v, ts)

\* An engine one tick after its start, one of whose metrics received up to MaxHistory
\* points stamped with the time of the call.
InitCleanup ==
    /\ cb = new /\ failure_threshold = 5 /\ timeout = 60 /\ now = 0
    /\ ObsInit /\ ConcIdle /\ RetryIdle /\ ExecIdle /\ AnomIdle /\ CorrIdle /\ IngIdle
    /\ history_size = MinHistory + 1
    /\ pnow = TickSeconds
    /\ \E k \in 0..MaxHistory, v \in { 100 } :
        /\ time_series = [ m \in Metrics |->
                             IF m = "latency" /\ k > 0
                             THEN Some(Stamped(TimeSeriesData_new(history_size), k, v, pnow))
                             ELSE None ]
        /\ pver = [ m \in Metrics |-> IF m = "latency" THEN k ELSE 0 ]
        /\ pdone = [ m \in Metrics |-> IF m = "latency" THEN k ELSE 0 ]
        /\ pstream = [ m \in Metrics |-> IF m = "latency" THEN [ i \in 1..k |-> << v, pnow >> ]
                                             ELSE << >> ]
    /\ predictions = [ m \in Metrics |-> None ]
    /\ padds = 0
    /\ pcall = [ t \in Tasks |-> IdleCall ]
    /\ plast = None
    /\ pseen = Unseen
    /\ pcleaned = [ m \in Metrics |-> FALSE ]

\* One caller recording points, some of them late, and cleaning up.
NextCleanup ==
    \E t \in Solo :
        \/ \E m \in Metrics, v \in PredValues, late \in Lateness :
                AddDataPoint(t, m, v, pnow - late) /\ UNCHANGED pseen
        \/ AddInvalidate(t) /\ UNCHANGED pseen
        \/ \E h \in RetentionHours : CleanupStart(t, h) /\ UNCHANGED pseen
        \/ CleanupEntry(t) /\ UNCHANGED pseen
        \/ PredTick /\ UNCHANGED pseen

SpecCleanup == InitCleanup /\ [][NextCleanup]_vars

\* the smoothing factors of the exponential smoothing calls, in halves: 0, 1/2 and 1
SmoothingHalves == { 0, 1, 2 }

\* One caller smoothing with every factor while points arrive and are cleaned up.
NextSmoothing ==
    \E t \in Solo :
        \/ \E m \in Metrics, k \in StepsAhead, a2 \in SmoothingHalves :
                PredictExponentialSmoothing(t, m, k, a2) /\ UNCHANGED pseen
        \/ \E m \in Metrics, v \in PredValues : AddDataPoint(t, m, v, pnow) /\ UNCHANGED pseen
        \/ AddInvalidate(t) /\ UNCHANGED pseen
        \/ \E h \in RetentionHours : CleanupStart(t, h) /\ UNCHANGED pseen
        \/ CleanupEntry(t) /\ UNCHANGED pseen
        \/ PredTick /\ UNCHANGED pseen

SpecSmoothing == InitPred /\ [][NextSmoothing]_vars

(***************************************************************************)
(* CorrelationEngine (src/analytics/correlation.rs)                        *)
(*                                                                         *)
(* An event is its envelope: id, correlation id, parent id, timestamp and  *)
(* source module; timestamps count half seconds.  A Vec built by           *)
(* iterating a hash set or map is kept in                                  *)
(* the order of EventOrder, which stands for the iteration order.          *)
(***************************************************************************)

EventOrder == << "e1", "e2", "e3" >>
EventIds == { EventOrder[i] : i \in 1..Len(EventOrder) }
CorrelationIds == { "c1", "c2" }
Modules == { "LlmObservatory", "LlmSentinel" }
Parents == { None, Some("e1"), Some("e2") }
\* timestamps of events and the clock of the engine count half seconds
PerSecond == 2
ClockSteps == { 3600 * PerSecond }
CorrRetentionHours == { 1 }

\* the source module of the events of each producer
ModuleOf(id) == IF id = "e2" THEN "LlmSentinel" ELSE "LlmObservatory"

\* the envelope of an event
Event(id, c, p, ts) ==
    [ event_id |-> id, correlation_id |-> c, parent_event_id |-> p, timestamp |-> ts,
      source_module |-> ModuleOf(id) ]

\* the ids of a set, in iteration order
InOrder(ids) == SelectSeq(EventOrder, LAMBDA id : id \in ids)

\* the elements of a sequence
Range(s) == { s[i] : i \in 1..Len(s) }

\* add_event, line 46: `self.events.insert(event_id, event.clone())`
store(evs, ev) == [ evs EXCEPT ![ev.event_id] = Some(ev) ]

\* add_event, lines 49-59: the id joins the set of the event's correlation id, if it has one
index(cors, ev) ==
    IF ev.correlation_id = None THEN cors
    ELSE [ cors EXCEPT ![ev.correlation_id[1]] = Some(or_insert(@, {}) \cup { ev.event_id }) ]

\* TemporalPattern::new and add_occurrence
TemporalPattern_new == [ occurrences |-> << >>, time_diffs |-> << >> ]
add_occurrence(p, timestamp, time_diff) ==
    [ occurrences |-> Append(p.occurrences, timestamp),
      time_diffs |-> Append(p.time_diffs, time_diff) ]

\* Duration::num_seconds: the whole seconds of a duration, rounded towards zero
num_seconds(d) == IF d >= 0 THEN d \div PerSecond ELSE -((-d) \div PerSecond)

\* a mutant of the window test that leaves the boundary out
M_InWindow_strict(time_diff) == time_diff < CorrelationWindow

\* find_temporal_correlations, line 82
InWindow(time_diff) == time_diff <= CorrelationWindow

RECURSIVE find_temporal_correlations(_, _, _, _)
\* find_temporal_correlations: every other stored event within the window adds an
\* occurrence to the pattern of (the event's module, the other's module)
find_temporal_correlations(pats, evs, ev, ids) ==
    IF ids = << >> THEN pats
    ELSE LET other == evs[Head(ids)]
             rest == Tail(ids)
         IN  IF other = None \/ Head(ids) = ev.event_id
             THEN find_temporal_correlations(pats, evs, ev, rest)
             ELSE LET time_diff == Abs(num_seconds(ev.timestamp - other[1].timestamp))
                      key == << ev.source_module, other[1].source_module >>
                  IN  IF InWindow(time_diff)
                      THEN find_temporal_correlations(
                               [ pats EXCEPT ![key] =
                                   Some(add_occurrence(or_insert(@, TemporalPattern_new),
                                                       ev.timestamp, time_diff)) ],
                               evs, ev, rest)
                      ELSE find_temporal_correlations(pats, evs, ev, rest)

\* a mutant of get_correlated_events that returns every stored event
M_get_correlated_all(cors, evs, c) ==
    [ i \in 1..Len(InOrder({ id \in EventIds : evs[id] # None })) |->
        evs[InOrder({ id \in EventIds : evs[id] # None })[i]][1] ]

\* get_correlated_events: the stored events of the ids in the correlation id's set
get_correlated_events(cors, evs, c) ==
    IF cors[c] = None THEN << >>
    ELSE LET found == InOrder({ id \in cors[c][1] : evs[id] # None })
         IN  [ i \in 1..Len(found) |-> evs[found[i]][1] ]

\* a mutant of build_correlation_graph that answers None only for an unknown correlation id
M_build_graph_known(cors, evs, c, t) ==
    IF cors[c] = None THEN None
    ELSE Some([ correlation_id |-> [ id |-> c, created_at |-> t ],
                nodes |-> [ i \in 1..Len(get_correlated_events(cors, evs, c)) |->
                              [ event_id |-> get_correlated_events(cors, evs, c)[i].event_id,
                                timestamp |-> get_correlated_events(cors, evs, c)[i].timestamp,
                                source_module |-> get_correlated_events(cors, evs, c)[i].source_module ] ],
                edges |-> << >> ])

\* build_correlation_graph: None without events; else a node per event and an edge per
\* event that names a parent
build_correlation_graph(cors, evs, c, t) ==
    LET found == get_correlated_events(cors, evs, c)
        children == SelectSeq(found, LAMBDA ev : ev.parent_event_id # None)
    IN  IF found = << >> THEN None
        ELSE Some([ correlation_id |-> [ id |-> c, created_at |-> t ],
                    nodes |-> [ i \in 1..Len(found) |->
                                  [ event_id |-> found[i].event_id,
                                    timestamp |-> found[i].timestamp,
                                    source_module |-> found[i].source_module ] ],
                    edges |-> [ i \in 1..Len(children) |->
                                  [ from_event_id |-> children[i].parent_event_id[1],
                                    to_event_id |-> children[i].event_id,
                                    correlation_type |-> "Causal",
                                    confidence |-> 1,
                                    latency_ms |-> None ] ] ])

\* a mutant of cleanup_old_events that keeps the events stamped with the cutoff itself
M_cleanup_old_events_at(evs, cutoff_time) ==
    [ id \in DOMAIN evs |-> IF evs[id] # None /\ evs[id][1].timestamp >= cutoff_time
                            THEN evs[id] ELSE None ]

\* cleanup_old_events: `retain(timestamp > cutoff_time)`
cleanup_old_events(evs, cutoff_time) ==
    [ id \in EventIds |-> IF evs[id] # None /\ evs[id][1].timestamp > cutoff_time
                          THEN evs[id] ELSE None ]

\* a mutant of add_event whose first step puts the id in the correlation set
M_AddEventStore_index_first(t, id, c, p, ts) ==
    LET ev == Event(id, c, p, ts)
    IN  /\ ccall[t].stage = "none"
        /\ cadds < MaxEvents
        /\ cadds' = cadds + 1
        /\ correlations' = index(correlations, ev)
        /\ ccall' = [ ccall EXCEPT ![t] = [ stage |-> "stored", event |-> Some(ev) ] ]
        /\ clast' = None
        /\ UNCHANGED << events, patterns, cnow, cindexed, cevicted, cticks, nonCorrVars >>

\* add_event, lines 43-46: the event body is stored
AddEventStore(t, id, c, p, ts) ==
    LET ev == Event(id, c, p, ts)
    IN  /\ ccall[t].stage = "none"
        /\ cadds < MaxEvents
        /\ cadds' = cadds + 1
        /\ events' = store(events, ev)
        /\ ccall' = [ ccall EXCEPT ![t] = [ stage |-> "stored", event |-> Some(ev) ] ]
        /\ clast' = None
        /\ UNCHANGED << correlations, patterns, cnow, cindexed, cevicted, cticks, nonCorrVars >>

\* add_event, lines 49-59: the event id is added to its correlation set
AddEventIndex(t) ==
    LET ev == ccall[t].event[1]
    IN  /\ ccall[t].stage = "stored"
        /\ correlations' = index(correlations, ev)
        /\ cindexed' = cindexed \cup { ev }
        /\ ccall' = [ ccall EXCEPT ![t].stage = "indexed" ]
        /\ clast' = None
        /\ UNCHANGED << events, patterns, cnow, cadds, cevicted, cticks, nonCorrVars >>

\* add_event, lines 62-64: the temporal patterns are updated and the call returns
AddEventCorrelate(t) ==
    LET ev == ccall[t].event[1]
    IN  /\ ccall[t].stage = "indexed"
        /\ patterns' = find_temporal_correlations(patterns, events, ev, EventOrder)
        /\ ccall' = [ ccall EXCEPT ![t] = NoAdd ]
        /\ clast' = Some([ op |-> "add_event", arg |-> ev.event_id, ret |-> << >>,
                           event |-> ev, before |-> patterns ])
        /\ UNCHANGED << events, correlations, cnow, cadds, cindexed, cevicted, cticks, nonCorrVars >>

\* a mutant of the confidence that is not capped at 100 occurrences
M_confidence_uncapped(occurrence_count) == Frac(9 * occurrence_count + 100, 1000)

\* CorrelationEngine::calculate_confidence: min(count / 100, 1.0) * 0.9 + 0.1
CorrelationEngine_calculate_confidence(occurrence_count) ==
    LET normalized == Frac(Min(occurrence_count, 100), 100)
    IN  Frac(9 * normalized.num + normalized.den, 10 * normalized.den)

\* analyze_module_correlation: the pattern stored under "module1:module2", if there is
\* one.  add_event writes the key from the Debug names of two modules, which hold no
\* colon, so the pair of names stands for the key.
analyze_module_correlation(pats, module1, module2) ==
    LET pattern_key == << module1, module2 >>
    IN  IF pattern_key \notin DOMAIN pats \/ pats[pattern_key] = None THEN None
        ELSE LET pattern == pats[pattern_key][1]
                 count == Len(pattern.occurrences)
             IN  Some([ module1 |-> module1,
                        module2 |-> module2,
                        correlation_count |-> count,
                        avg_time_diff_seconds |->
                            IF count > 0 THEN Sum(pattern.time_diffs) \div count ELSE 0,
                        confidence |-> CorrelationEngine_calculate_confidence(count) ])

\* a caller asks for the correlation of two modules
AnalyzeModuleCorrelation(module1, module2) ==
    /\ clast' = Some([ op |-> "analyze_module_correlation", arg |-> << module1, module2 >>,
                       ret |-> analyze_module_correlation(patterns, module1, module2) ])
    /\ UNCHANGED << events, correlations, patterns, cnow, cadds, ccall, cindexed, cevicted,
                    cticks, nonCorrVars >>

\* a caller reads a correlation group
GetCorrelatedEvents(c) ==
    /\ clast' = Some([ op |-> "get_correlated_events", arg |-> c,
                       ret |-> get_correlated_events(correlations, events, c) ])
    /\ UNCHANGED << events, correlations, patterns, cnow, cadds, ccall, cindexed, cevicted,
                    cticks, nonCorrVars >>

\* a caller builds the graph of a correlation group
BuildCorrelationGraph(c) ==
    /\ clast' = Some([ op |-> "build_correlation_graph", arg |-> c,
                       ret |-> build_correlation_graph(correlations, events, c, cnow) ])
    /\ UNCHANGED << events, correlations, patterns, cnow, cadds, ccall, cindexed, cevicted,
                    cticks, nonCorrVars >>

\* a caller evicts the events not newer than now - retention_hours
CleanupOldEvents(h) ==
    LET kept == cleanup_old_events(events, cnow - 3600 * PerSecond * h)
    IN  /\ events' = kept
        /\ cevicted' = (cevicted \/ kept # events)
        /\ clast' = Some([ op |-> "cleanup_old_events", arg |-> h,
                           cutoff |-> cnow - 3600 * PerSecond * h,
                           before |-> [ events |-> events, correlations |-> correlations,
                                        patterns |-> patterns ],
                           ret |-> Cardinality({ id \in EventIds : events[id] # None /\ kept[id] = None }) ])
        /\ UNCHANGED << correlations, patterns, cnow, cadds, ccall, cindexed, cticks, nonCorrVars >>

\* time passes
CorrTick(d) ==
    /\ cticks < MaxCorrTicks
    /\ cticks' = cticks + 1
    /\ cnow' = cnow + d
    /\ clast' = None
    /\ UNCHANGED << events, correlations, patterns, cadds, ccall, cindexed, cevicted, nonCorrVars >>

\* add_event from call to return, with no other call in between
add_event(st, ev) ==
    [ events |-> store(st.events, ev),
      correlations |-> index(st.correlations, ev),
      patterns |-> find_temporal_correlations(st.patterns, store(st.events, ev), ev, EventOrder) ]

\* the events an engine may hold at the start: a root event and a child of it
Seeds == << Event("e1", Some("c1"), None, 0), Event("e2", Some("c1"), Some("e1"), 0) >>

RECURSIVE Seeded(_)
\* the engine after add_event of the first k seeds
Seeded(k) ==
    IF k = 0 THEN [ events |-> [ id \in EventIds |-> None ],
                    correlations |-> [ c \in CorrelationIds |-> None ],
                    patterns |-> [ key \in Modules \X Modules |-> None ] ]
    ELSE add_event(Seeded(k - 1), Seeds[k])

\* An engine that received none, one or both of the seeds at time 0.
InitCorr ==
    /\ cb = new /\ failure_threshold = 5 /\ timeout = 60 /\ now = 0
    /\ ObsInit /\ ConcIdle /\ RetryIdle /\ ExecIdle /\ AnomIdle /\ PredIdle /\ IngIdle
    /\ \E k \in 0..Len(Seeds) :
        /\ events = Seeded(k).events
        /\ correlations = Seeded(k).correlations
        /\ patterns = Seeded(k).patterns
        /\ cindexed = { Seeds[i] : i \in 1..k }
    /\ cnow = 0
    /\ cadds = 0
    /\ cticks = 0
    /\ ccall = [ t \in Tasks |-> NoAdd ]
    /\ clast = None
    /\ cevicted = FALSE

\* One caller adding events, step by step, while others read, evict and time passes.
NextCorr ==
    \/ \E t \in Solo, id \in EventIds, c \in { None } \cup { Some(x) : x \in CorrelationIds },
          p \in Parents : AddEventStore(t, id, c, p, cnow)
    \/ \E t \in Solo : AddEventIndex(t)
    \/ \E t \in Solo : AddEventCorrelate(t)
    \/ \E c \in CorrelationIds : GetCorrelatedEvents(c)
    \/ \E c \in CorrelationIds : BuildCorrelationGraph(c)
    \/ \E h \in CorrRetentionHours : CleanupOldEvents(h)
    \/ \E d \in ClockSteps : CorrTick(d)

SpecCorr == InitCorr /\ [][NextCorr]_vars

\* the timestamp of the events an engine holds at the start of SpecPatterns
BaseTime == 2 * CorrelationWindow * PerSecond

\* the timestamps of the events added, relative to BaseTime: at the window's edge, half a
\* second and a second past it, on either side
Offsets ==
    { 0, CorrelationWindow * PerSecond, CorrelationWindow * PerSecond + 1,
      CorrelationWindow * PerSecond + PerSecond,
      -(CorrelationWindow * PerSecond), -(CorrelationWindow * PerSecond + 1),
      -(CorrelationWindow * PerSecond + PerSecond) }

PatternSeeds == << Event("e1", None, None, BaseTime), Event("e2", None, None, BaseTime) >>

RECURSIVE Engine(_)
\* the engine after add_event of each event of evs in turn
Engine(evs) ==
    IF evs = << >> THEN Seeded(0)
    ELSE add_event(Engine(SubSeq(evs, 1, Len(evs) - 1)), evs[Len(evs)])

\* An engine that received none, one or both of the pattern seeds.
InitPatterns ==
    /\ cb = new /\ failure_threshold = 5 /\ timeout = 60 /\ now = 0
    /\ ObsInit /\ ConcIdle /\ RetryIdle /\ ExecIdle /\ AnomIdle /\ PredIdle /\ IngIdle
    /\ \E k \in 0..Len(PatternSeeds) :
        /\ events = Engine(SubSeq(PatternSeeds, 1, k)).events
        /\ correlations = Engine(SubSeq(PatternSeeds, 1, k)).correlations
        /\ patterns = Engine(SubSeq(PatternSeeds, 1, k)).patterns
        /\ cindexed = { PatternSeeds[i] : i \in 1..k }
    /\ cnow = 0
    /\ cadds = 0
    /\ cticks = 0
    /\ ccall = [ t \in Tasks |-> NoAdd ]
    /\ clast = None
    /\ cevicted = FALSE

\* One caller adding events stamped around the window's edges, while events are evicted.
NextPatterns ==
    \/ \E t \in Solo, id \in EventIds, off \in Offsets :
          AddEventStore(t, id, None, None, BaseTime + off)
    \/ \E t \in Solo : AddEventIndex(t)
    \/ \E t \in Solo : AddEventCorrelate(t)
    \/ CleanupOldEvents(0)
    \/ \E d \in ClockSteps : CorrTick(d)

SpecPatterns == InitPatterns /\ [][NextPatterns]_vars

\* the module names handed to analyze_module_correlation: the Debug names of two modules
\* and the serialized name of one
AnalysisNames == Modules \cup { "llm-sentinel" }

\* An engine that received an event of LlmSentinel and then, n times, an event of
\* LlmObservatory under one id and with the same timestamp.
InitAnalysis ==
    /\ cb = new /\ failure_threshold = 5 /\ timeout = 60 /\ now = 0
    /\ ObsInit /\ ConcIdle /\ RetryIdle /\ ExecIdle /\ AnomIdle /\ PredIdle /\ IngIdle
    /\ \E n \in 0..MaxOccurrences :
        /\ events = [ id \in EventIds |->
                        IF id = "e2" \/ (id = "e1" /\ n > 0)
                        THEN Some(Event(id, None, None, BaseTime)) ELSE None ]
        /\ patterns = [ key \in Modules \X Modules |->
                          IF key = << "LlmObservatory", "LlmSentinel" >> /\ n > 0
                          THEN Some([ occurrences |-> [ i \in 1..n |-> BaseTime ],
                                      time_diffs |-> [ i \in 1..n |-> 0 ] ])
                          ELSE None ]
        /\ cindexed = { Event(id, None, None, BaseTime) : id \in { "e2" } \cup
                                                              (IF n > 0 THEN { "e1" } ELSE {}) }
    /\ correlations = [ c \in CorrelationIds |-> None ]
    /\ cnow = 0
    /\ cadds = 0
    /\ cticks = 0
    /\ ccall = [ t \in Tasks |-> NoAdd ]
    /\ clast = None
    /\ cevicted = FALSE

\* One caller adding events and asking for the correlation of module pairs.
NextAnalysis ==
    \/ \E t \in Solo, id \in EventIds : AddEventStore(t, id, None, None, BaseTime)
    \/ \E t \in Solo : AddEventIndex(t)
    \/ \E t \in Solo : AddEventCorrelate(t)
    \/ \E module1, module2 \in AnalysisNames : AnalyzeModuleCorrelation(module1, module2)

SpecAnalysis == InitAnalysis /\ [][NextAnalysis]_vars

(***************************************************************************)
(* EventIngester (src/pipeline/ingestion.rs)                               *)
(*                                                                         *)
(* The consumer loop spawned by start_consuming, the bounded channel to    *)
(* the downstream receiver, and publish_batch.  An event received by the   *)
(* loop is named by the number of the message that carried it.             *)
(***************************************************************************)

BufferSizes == { 1, 2 }
MessageKinds == { "event", "malformed", "empty" }

\* a mutant of the message handling that buffers a message that failed to deserialize
M_buffer_all(b, kind, id) == IF kind = "empty" THEN b ELSE Append(b, id)

\* start_consuming, lines 90-110: a payload that deserializes is pushed on the batch
buffer(b, kind, id) == IF kind = "event" THEN Append(b, id) ELSE b

\* a mutant of the channel that accepts a message whatever it holds
M_has_capacity_always(ch, cap) == TRUE

\* mpsc::Sender::send completes once the channel holds fewer messages than its capacity
has_capacity(ch, cap) == Len(ch) < cap

\* the kind of the message received last and of the one before
Last(kind) == [ kind |-> kind, prev |-> llast.kind, slept |-> 0 ]

\* a mutant of the threshold that flushes once the batch holds more than the limit
M_flush_due_above(pushed, b) == Len(pushed) # Len(b) /\ Len(pushed) > BatchLimit

\* lines 94-96: after a push, the batch is flushed when it holds 1000 events or more
flush_due(pushed, b) == Len(pushed) # Len(b) /\ Len(pushed) >= BatchLimit

\* consumer.recv() returns a message: lines 88-115
Recv(kind) ==
    LET id == message_count + 1
        pushed == buffer(batch, kind, id)
    IN  /\ lpc = "Receiving"
        /\ lmsgs < MaxMessages
        /\ lmsgs' = lmsgs + 1
        /\ message_count' = id
        /\ accepted' = IF kind = "event" THEN Append(accepted, id) ELSE accepted
        /\ IF flush_due(pushed, batch)
           THEN /\ draining' = pushed
                /\ batch' = << >>
                /\ lpc' = "Flushing"
           ELSE /\ batch' = pushed
                /\ UNCHANGED << draining, lpc >>
        /\ llast' = Last(kind)
        /\ UNCHANGED << channel, buffer_size, rx_open, queued, publish, topic, nonIngVars >>

\* consumer.recv() returns an error: lines 116-119, the sleep begins
RecvError ==
    /\ lpc = "Receiving"
    /\ lmsgs < MaxMessages
    /\ lmsgs' = lmsgs + 1
    /\ lpc' = "Paused"
    /\ llast' = Last("error")
    /\ UNCHANGED << batch, draining, channel, buffer_size, rx_open, message_count, accepted,
                    queued, publish, topic, nonIngVars >>

\* line 118: the sleep of one second ends
Wake ==
    /\ lpc = "Paused"
    /\ lpc' = "Receiving"
    /\ llast' = [ llast EXCEPT !.slept = PauseSeconds ]
    /\ UNCHANGED << batch, draining, channel, buffer_size, rx_open, message_count, lmsgs,
                    accepted, queued, publish, topic, nonIngVars >>

\* lines 98-103: the next event of the drained batch is sent on the channel; a closed
\* receiver fails the send, the loop breaks and the rest of the drained batch is dropped
Send ==
    /\ lpc = "Flushing"
    /\ IF ~ rx_open
       THEN /\ draining' = << >>
            /\ lpc' = "Receiving"
            /\ UNCHANGED << channel, queued >>
       ELSE /\ has_capacity(channel, buffer_size)
            /\ channel' = Append(channel, Head(draining))
            /\ queued' = Append(queued, Head(draining))
            /\ draining' = Tail(draining)
            /\ lpc' = IF Tail(draining) = << >> THEN "Receiving" ELSE "Flushing"
    /\ UNCHANGED << batch, buffer_size, rx_open, message_count, lmsgs, accepted, llast,
                    publish, topic, nonIngVars >>

\* the downstream receiver takes the oldest event of the channel
DownstreamRecv ==
    /\ rx_open
    /\ channel # << >>
    /\ channel' = Tail(channel)
    /\ UNCHANGED << lpc, batch, draining, buffer_size, rx_open, message_count, lmsgs, accepted,
                    queued, llast, publish, topic, nonIngVars >>

\* the downstream receiver is dropped, and with it what the channel holds
DropReceiver ==
    /\ rx_open
    /\ rx_open' = FALSE
    /\ channel' = << >>
    /\ UNCHANGED << lpc, batch, draining, buffer_size, message_count, lmsgs, accepted,
                    queued, llast, publish, topic, nonIngVars >>

\* The loop at its start, or after it received and batched all but one of the events
\* that fill a batch.
InitLoop ==
    /\ cb = new /\ failure_threshold = 5 /\ timeout = 60 /\ now = 0
    /\ ObsInit /\ ConcIdle /\ RetryIdle /\ ExecIdle /\ AnomIdle /\ PredIdle /\ CorrIdle
    /\ lpc = "Receiving"
    /\ \E k \in { 0, BatchLimit - 1 } :
        /\ batch = [ i \in 1..k |-> i ]
        /\ accepted = [ i \in 1..k |-> i ]
        /\ message_count = k
    /\ draining = << >>
    /\ channel = << >>
    /\ buffer_size \in BufferSizes
    /\ rx_open = TRUE
    /\ lmsgs = 0
    /\ queued = << >>
    /\ llast = [ kind |-> "none", prev |-> "none", slept |-> 0 ]
    /\ publish = NoPublish
    /\ topic = << >>

NextLoop ==
    \/ \E kind \in MessageKinds : Recv(kind)
    \/ RecvError
    \/ Wake
    \/ Send
    \/ DownstreamRecv
    \/ DropReceiver

SpecLoop == InitLoop /\ [][NextLoop]_vars

\* The spawned task is polled whenever its send can complete, and the sleep ends.  The
\* receiving end of the channel is handed out by take_receiver: nothing in the ingester
\* makes its owner receive.
FairLoop ==
    SpecLoop /\ WF_vars(Send) /\ WF_vars(Wake)

\* the batches handed to publish_batch
RECURSIVE BatchesOf(_)
BatchesOf(n) ==
    IF n = 0 THEN { << >> }
    ELSE BatchesOf(n - 1) \cup
         { Append(b, id) : b \in { x \in BatchesOf(n - 1) : Len(x) = n - 1 }, id \in EventIds }

\* whether FutureProducer::send hands the message to the client when it is called or when
\* its future is first awaited
SendModes == { "on_call", "on_await" }

\* a mutant of the error of publish_batch that reports the last failure
M_last_failure(outcomes, upto) ==
    IF \A i \in 1..upto : outcomes[i] # "failed" THEN 0
    ELSE CHOOSE i \in 1..upto : outcomes[i] = "failed" /\ \A j \in (i + 1)..upto : outcomes[j] # "failed"

\* lines 160-164: the futures are awaited in batch order and the first error is returned
first_failure(outcomes, upto) ==
    IF \A i \in 1..upto : outcomes[i] # "failed" THEN 0
    ELSE CHOOSE i \in 1..upto : outcomes[i] = "failed" /\ \A j \in 1..(i - 1) : outcomes[j] # "failed"

\* the events of evs whose send was delivered, in batch order
Delivered(evs, outcomes) ==
    LET sent == SelectSeq([ i \in 1..Len(evs) |-> i ], LAMBDA i : outcomes[i] = "delivered")
    IN  [ j \in 1..Len(sent) |-> evs[sent[j]] ]

\* publish_batch, lines 146-157: a send future is made for each event of the batch
PublishBatch(evs, mode) ==
    /\ publish.stage \in { "idle", "returned" }
    /\ publish.calls < MaxBatches
    /\ \E outcomes \in [ 1..Len(evs) -> { "delivered", "failed" } ] :
        /\ publish' = [ stage |-> "awaiting", events |-> evs, mode |-> mode, next |-> 1,
                        outcomes |-> IF mode = "on_call" THEN outcomes
                                     ELSE [ i \in 1..Len(evs) |-> "unsent" ],
                        ret |-> None, calls |-> publish.calls + 1, before |-> topic ]
        /\ topic' = IF mode = "on_call" THEN topic \o Delivered(evs, outcomes) ELSE topic
    /\ UNCHANGED << lpc, batch, draining, channel, buffer_size, rx_open, message_count, lmsgs,
                    accepted, queued, llast, nonIngVars >>

\* publish_batch, lines 160-166: the next future is awaited; the first failure is returned,
\* and Ok once every future was awaited
PublishAwait ==
    LET i == publish.next
        n == Len(publish.events)
        finish(outcomes) ==
            publish' = [ publish EXCEPT !.stage = "returned", !.outcomes = outcomes,
                                        !.ret = Some(first_failure(outcomes, n)) ]
    IN  /\ publish.stage = "awaiting"
        /\ IF i > n THEN finish(publish.outcomes) /\ UNCHANGED topic
           ELSE \E o \in IF publish.mode = "on_call" THEN { publish.outcomes[i] }
                          ELSE { "delivered", "failed" } :
                  LET outcomes == [ publish.outcomes EXCEPT ![i] = o ]
                  IN  /\ topic' = IF publish.mode = "on_await" /\ o = "delivered"
                                  THEN Append(topic, publish.events[i]) ELSE topic
                      /\ IF o = "failed" THEN finish(outcomes)
                         ELSE publish' = [ publish EXCEPT !.next = i + 1, !.outcomes = outcomes ]
        /\ UNCHANGED << lpc, batch, draining, channel, buffer_size, rx_open, message_count, lmsgs,
                        accepted, queued, llast, nonIngVars >>

\* An ingester that published nothing yet.
InitPublish ==
    /\ cb = new /\ failure_threshold = 5 /\ timeout = 60 /\ now = 0
    /\ ObsInit /\ ConcIdle /\ RetryIdle /\ ExecIdle /\ AnomIdle /\ PredIdle /\ CorrIdle /\ IngIdle

NextPublish ==
    \/ \E evs \in BatchesOf(MaxBatch), mode \in SendModes : PublishBatch(evs, mode)
    \/ PublishAwait

SpecPublish == InitPublish /\ [][NextPublish]_vars

(***************************************************************************)
(* Concurrent callers of check_anomaly, add_data_point, reset_baseline and *)
(* get_all_anomalies, statement by statement.  A DashMap guards each of    *)
(* its shards with a read-write lock: entry() and remove() take the write  *)
(* lock of the key's shard, iter() the read lock of the shard it visits,   *)
(* and a guard holds its lock until it is dropped.  Two keys share a lock  *)
(* when they hash to the same shard.                                       *)
(***************************************************************************)

\* the keys x and y are guarded by the same lock
SameShard(x, y) == x = y \/ collide

\* the stages of check_anomaly in which the caller holds the entry guard `baseline`
HoldsBaseline(c, m) ==
    /\ c.op = "check_anomaly"
    /\ c.stage \in { "locked", "valued", "stamped", "logging" }
    /\ SameShard(c.m, m)

\* the stages of add_data_point in which the caller holds the entry guard of line 41
HoldsSeries(c, m) ==
    /\ c.op = "add_data_point"
    /\ c.stage \in { "locked", "valued" }
    /\ SameShard(c.m, m)

\* get_all_anomalies holds the read lock of the shard its iterator is in
HoldsLog(c, m) ==
    /\ c.op = "get_all_anomalies"
    /\ \E x \in c.cur : SameShard(x, m)

\* a mutant of the entry lock that is always granted
M_entry_free_always(calls, m) == TRUE

\* `self.baselines.entry(..)`: the write lock of the key's shard is granted when no
\* caller holds a guard on that shard
entry_free(calls, m) == \A u \in Tasks : ~ HoldsBaseline(calls[u], m)

\* `self.time_series.entry(..)`
series_free(calls, m) == \A u \in Tasks : ~ HoldsSeries(calls[u], m)

\* `self.anomalies.entry(..)`
log_free(calls, m) == \A u \in Tasks : ~ HoldsLog(calls[u], m)

\* VecDeque pop_front on both deques of a full window, then push_back of the value:
\* add_value, lines 197-201, and add_point, lines 261-265
push_value(d, value) ==
    LET full == Len(d.values) >= d.max_size
        vs == IF full /\ d.values # << >> THEN Tail(d.values) ELSE d.values
        ts == IF full /\ d.timestamps # << >> THEN Tail(d.timestamps) ELSE d.timestamps
    IN  [ d EXCEPT !.values = Append(vs, value), !.timestamps = ts ]

\* push_back of the timestamp: add_value, line 202, and add_point, line 266
push_timestamp(d, timestamp) == [ d EXCEPT !.timestamps = Append(@, timestamp) ]

\* check_anomaly is called
CheckCall(t, m, v) ==
    /\ icall[t].op = "none"
    /\ made < MaxConcCalls
    /\ made' = made + 1
    /\ clock' = clock + 1
    /\ icall' = [ icall EXCEPT ![t] =
                    [ IdleIns EXCEPT !.op = "check_anomaly", !.stage = "waiting",
                                     !.m = m, !.v = v, !.ts = clock + 1 ] ]
    /\ lastCheck' = None
    /\ aret' = None
    /\ UNCHANGED << sensitivity10, baselines, anomalies, fed, astream, collide,
                    resVars, predVars, corrVars, ingVars >>

\* check_anomaly, lines 41-44: the entry is locked, and made if the metric has none
CheckLock(t) ==
    LET c == icall[t]
    IN  /\ c.op = "check_anomaly" /\ c.stage = "waiting"
        /\ entry_free(icall, c.m)
        /\ baselines' = [ baselines EXCEPT ![c.m] =
                            Some(or_insert(@, MetricBaseline_new(BaselineCapacity))) ]
        /\ icall' = [ icall EXCEPT ![t] = [ c EXCEPT !.stage = "locked", !.before = baselines[c.m] ] ]
        /\ fed' = [ fed EXCEPT ![c.m] = @ + 1 ]
        /\ astream' = [ astream EXCEPT ![c.m] = Append(@, << c.v, c.ts >>) ]
        /\ lastCheck' = None
        /\ UNCHANGED << sensitivity10, anomalies, clock, made, aret, collide,
                        resVars, predVars, corrVars, ingVars >>

\* add_value, lines 197-201
CheckPushValue(t) ==
    LET c == icall[t]
    IN  /\ c.op = "check_anomaly" /\ c.stage = "locked"
        /\ baselines[c.m] # None
        /\ baselines' = [ baselines EXCEPT ![c.m] = Some(push_value(@[1], c.v)) ]
        /\ icall' = [ icall EXCEPT ![t] = [ c EXCEPT !.stage = "valued" ] ]
        /\ lastCheck' = None
        /\ UNCHANGED << sensitivity10, anomalies, clock, made, fed, astream, aret, collide,
                        resVars, predVars, corrVars, ingVars >>

\* add_value, line 202
CheckPushTimestamp(t) ==
    LET c == icall[t]
    IN  /\ c.op = "check_anomaly" /\ c.stage = "valued"
        /\ baselines[c.m] # None
        /\ baselines' = [ baselines EXCEPT ![c.m] = Some(push_timestamp(@[1], c.ts)) ]
        /\ icall' = [ icall EXCEPT ![t] = [ c EXCEPT !.stage = "stamped" ] ]
        /\ lastCheck' = None
        /\ UNCHANGED << sensitivity10, anomalies, clock, made, fed, astream, aret, collide,
                        resVars, predVars, corrVars, ingVars >>

\* what is remembered of a check_anomaly call when it returns
Checked(c, ret) ==
    Some([ metric |-> c.m, value |-> c.v, timestamp |-> c.ts,
           nth |-> fed[c.m],
           before |-> or_insert(c.before, MetricBaseline_new(BaselineCapacity)).values,
           entry |-> c.before,
           window |-> baselines[c.m],
           log_before |-> anomalies[c.m],
           ret |-> ret ])

\* check_anomaly, lines 49-76: the statistics of the window and the verdict; without an
\* anomaly the call returns and the guard is dropped
CheckVerdict(t) ==
    LET c == icall[t]
        ret == verdict(baselines[c.m][1], c.m, c.v, c.ts, sensitivity10)
    IN  /\ c.op = "check_anomaly" /\ c.stage = "stamped"
        /\ baselines[c.m] # None
        /\ IF ret = None
           THEN /\ icall' = [ icall EXCEPT ![t] = IdleIns ]
                /\ lastCheck' = Checked(c, None)
           ELSE /\ icall' = [ icall EXCEPT ![t] = [ c EXCEPT !.stage = "logging", !.ret = ret ] ]
                /\ lastCheck' = None
        /\ UNCHANGED << sensitivity10, baselines, anomalies, clock, made, fed, astream, aret,
                        collide, resVars, predVars, corrVars, ingVars >>

\* check_anomaly, lines 79-84: the anomaly is pushed on the log under the log's entry lock,
\* the call returns and the guard on the baseline is dropped
CheckLog(t) ==
    LET c == icall[t]
    IN  /\ c.op = "check_anomaly" /\ c.stage = "logging"
        /\ log_free(icall, c.m)
        /\ anomalies' = [ anomalies EXCEPT ![c.m] = Some(Append(or_insert(@, << >>), c.ret[1])) ]
        /\ icall' = [ icall EXCEPT ![t] = IdleIns ]
        /\ lastCheck' = Checked(c, c.ret)
        /\ UNCHANGED << sensitivity10, baselines, clock, made, fed, astream, aret, collide,
                        resVars, predVars, corrVars, ingVars >>

\* reset_baseline: remove() takes the write lock of the key's shard
ResetLocked(m) ==
    /\ entry_free(icall, m)
    /\ ResetBaseline(m)

\* get_all_anomalies, line 148: the iterator is made
GetAllStart(t) ==
    /\ icall[t].op = "none"
    /\ \E u \in Tasks : icall[u].op = "check_anomaly"
    /\ icall' = [ icall EXCEPT ![t] =
                    [ IdleIns EXCEPT !.op = "get_all_anomalies", !.stage = "iterating",
                                     !.todo = Metrics ] ]
    /\ lastCheck' = None
    /\ UNCHANGED << sensitivity10, baselines, anomalies, clock, made, fed, astream, aret,
                    collide, resVars, predVars, corrVars, ingVars >>

\* get_all_anomalies, lines 148-150: the iterator leaves the shard it was in and enters
\* the next one, or ends; lines 153-156 touch no shared state
GetAllNext(t) ==
    LET c == icall[t]
    IN  /\ c.op = "get_all_anomalies"
        /\ IF c.todo = {}
           THEN icall' = [ icall EXCEPT ![t] = IdleIns ]
           ELSE \E x \in c.todo :
                  LET shard == { y \in Metrics : SameShard(x, y) }
                  IN  icall' = [ icall EXCEPT ![t] = [ c EXCEPT !.cur = shard, !.todo = @ \ shard ] ]
        /\ lastCheck' = None
        /\ UNCHANGED << sensitivity10, baselines, anomalies, clock, made, fed, astream, aret,
                        collide, resVars, predVars, corrVars, ingVars >>

\* add_data_point is called
AddCall(t, m, v) ==
    /\ icall[t].op = "none"
    /\ padds < MaxConcCalls
    /\ padds' = padds + 1
    /\ icall' = [ icall EXCEPT ![t] =
                    [ IdleIns EXCEPT !.op = "add_data_point", !.stage = "waiting",
                                     !.m = m, !.v = v, !.ts = padds + 1 ] ]
    /\ lastCheck' = None
    /\ UNCHANGED << history_size, time_series, predictions, pnow, pcall, pver, pdone, plast,
                    pseen, pstream, pcleaned, collide,
                    sensitivity10, baselines, anomalies, clock, made, fed, astream, aret,
                    resVars, corrVars, ingVars >>

\* add_data_point, lines 40-42: the entry is locked, and made if the metric has none
AddLock(t) ==
    LET c == icall[t]
    IN  /\ c.op = "add_data_point" /\ c.stage = "waiting"
        /\ series_free(icall, c.m)
        /\ time_series' = [ time_series EXCEPT ![c.m] =
                              Some(or_insert(@, TimeSeriesData_new(history_size))) ]
        /\ pstream' = [ pstream EXCEPT ![c.m] = Append(@, << c.v, c.ts >>) ]
        /\ icall' = [ icall EXCEPT ![t] = [ c EXCEPT !.stage = "locked" ] ]
        /\ lastCheck' = None
        /\ UNCHANGED << history_size, predictions, pnow, padds, pcall, pver, pdone, plast,
                        pseen, pcleaned, collide,
                        sensitivity10, baselines, anomalies, clock, made, fed, astream, aret, resVars, corrVars, ingVars >>

\* add_point, lines 261-265
AddPushValue(t) ==
    LET c == icall[t]
    IN  /\ c.op = "add_data_point" /\ c.stage = "locked"
        /\ time_series[c.m] # None
        /\ time_series' = [ time_series EXCEPT ![c.m] = Some(push_value(@[1], c.v)) ]
        /\ icall' = [ icall EXCEPT ![t] = [ c EXCEPT !.stage = "valued" ] ]
        /\ lastCheck' = None
        /\ UNCHANGED << history_size, predictions, pnow, padds, pcall, pver, pdone, plast,
                        pseen, pstream, pcleaned, collide,
                        sensitivity10, baselines, anomalies, clock, made, fed, astream, aret,
                        resVars, corrVars, ingVars >>

\* add_point, line 266, and the drop of the guard at the end of the statement of line 43
AddPushTimestamp(t) ==
    LET c == icall[t]
    IN  /\ c.op = "add_data_point" /\ c.stage = "valued"
        /\ time_series[c.m] # None
        /\ time_series' = [ time_series EXCEPT ![c.m] = Some(push_timestamp(@[1], c.ts)) ]
        /\ icall' = [ icall EXCEPT ![t] = [ c EXCEPT !.stage = "added" ] ]
        /\ lastCheck' = None
        /\ UNCHANGED << history_size, predictions, pnow, padds, pcall, pver, pdone, plast,
                        pseen, pstream, pcleaned, collide,
                        sensitivity10, baselines, anomalies, clock, made, fed, astream, aret,
                        resVars, corrVars, ingVars >>

\* add_data_point, lines 46-48: the cached forecast is removed and the call returns
AddRemove(t) ==
    LET c == icall[t]
    IN  /\ c.op = "add_data_point" /\ c.stage = "added"
        /\ predictions' = invalidate(predictions, c.m)
        /\ icall' = [ icall EXCEPT ![t] = IdleIns ]
        /\ lastCheck' = None
        /\ UNCHANGED << history_size, time_series, pnow, padds, pcall, pver, pdone, plast,
                        pseen, pstream, pcleaned, collide,
                        sensitivity10, baselines, anomalies, clock, made, fed, astream, aret,
                        resVars, corrVars, ingVars >>

\* the values the concurrent callers check and add
ConcValues == { 100, 250 }
AddValues == { 100 }
ConcSizes == { 1, MinHistory + 1 }

\* Callers about to call one of the two engines, the other engine left alone: either the
\* detector with a metric one value short of the end of its warm-up, or a fresh
\* prediction engine.
InitConc ==
    /\ cb = new /\ failure_threshold = 5 /\ timeout = 60 /\ now = 0
    /\ last = [ op |-> "new", pre |-> new, ret |-> TRUE ] /\ consec = 0 /\ hoSucc = 0
    /\ RetryIdle /\ ExecIdle /\ CorrIdle /\ IngIdle
    /\ sensitivity10 = 10
    /\ \E k \in { WarmUp - 1 } :
        /\ baselines = [ m \in Metrics |->
                            IF m = "latency" /\ k > 0
                            THEN Some([ values |-> Repeat(100, k),
                                        timestamps |-> [ i \in 1..k |-> i ],
                                        max_size |-> BaselineCapacity ])
                            ELSE None ]
        /\ clock = k
        /\ fed = [ m \in Metrics |-> IF m = "latency" THEN k ELSE 0 ]
        /\ astream = [ m \in Metrics |->
                          IF m = "latency" THEN [ i \in 1..k |-> << 100, i >> ] ELSE << >> ]
    /\ anomalies = [ m \in Metrics |-> None ]
    /\ \/ made = 0 /\ padds = MaxConcCalls /\ history_size = MinHistory + 1
       \/ made = MaxConcCalls /\ padds = 0 /\ history_size \in ConcSizes
    /\ lastCheck = None
    /\ aret = None
    /\ time_series = [ m \in Metrics |-> None ]
    /\ predictions = [ m \in Metrics |-> None ]
    /\ pnow = 0
    /\ pcall = [ t \in Tasks |-> IdleCall ]
    /\ pver = [ m \in Metrics |-> 0 ]
    /\ pdone = [ m \in Metrics |-> 0 ]
    /\ plast = None
    /\ pseen = [ q |-> None, ret |-> None, foreign |-> FALSE, same |-> TRUE, was_foreign |-> FALSE ]
    /\ pstream = [ m \in Metrics |-> << >> ]
    /\ pcleaned = [ m \in Metrics |-> FALSE ]
    /\ icall = [ t \in Tasks |-> IdleIns ]
    /\ collide \in BOOLEAN

\* the statements a caller inside a call runs next
ConcStep(t) ==
    \/ CheckLock(t)
    \/ CheckPushValue(t)
    \/ CheckPushTimestamp(t)
    \/ CheckVerdict(t)
    \/ CheckLog(t)
    \/ GetAllNext(t)
    \/ AddLock(t)
    \/ AddPushValue(t)
    \/ AddPushTimestamp(t)
    \/ AddRemove(t)

NextConc ==
    \/ \E t \in Tasks, m \in Metrics, v \in ConcValues : CheckCall(t, m, v)
    \/ \E t \in Tasks, m \in Metrics, v \in AddValues : AddCall(t, m, v)
    \/ \E t \in Tasks : GetAllStart(t)
    \/ \E m \in Metrics : ResetLocked(m)
    \/ \E t \in Tasks : ConcStep(t)

SpecConc == InitConc /\ [][NextConc]_vars

(***************************************************************************)
(* The sliding windows of both engines at, and past, their capacity.       *)
(***************************************************************************)

\* Either a detector whose window is one value short of full, or full, of equal values
\* (none of which was an anomaly), next to a fresh prediction engine; or a prediction
\* engine with a small history size, one of whose metrics received k points, next to a
\* fresh detector.  The calls of the engine left alone are not made.
InitWindows ==
    /\ cb = new /\ failure_threshold = 5 /\ timeout = 60 /\ now = 0
    /\ ObsInit /\ ConcIdle /\ RetryIdle /\ ExecIdle /\ CorrIdle /\ IngIdle
    /\ anomalies = [ m \in Metrics |-> None ]
    /\ lastCheck = None
    /\ aret = None
    /\ predictions = [ m \in Metrics |-> None ]
    /\ pnow = 0
    /\ pcall = [ t \in Tasks |-> IdleCall ]
    /\ plast = None
    /\ pseen = [ q |-> None, ret |-> None, foreign |-> FALSE, same |-> TRUE, was_foreign |-> FALSE ]
    /\ pcleaned = [ m \in Metrics |-> FALSE ]
    /\ \/ /\ sensitivity10 \in Sensitivities10
          /\ \E k \in (BaselineCapacity - 1)..BaselineCapacity, v \in Values :
                /\ baselines = [ m \in Metrics |->
                                    IF m = "latency"
                                    THEN Some([ values |-> Repeat(v, k),
                                                timestamps |-> [ i \in 1..k |-> i ],
                                                max_size |-> BaselineCapacity ])
                                    ELSE None ]
                /\ clock = k
                /\ fed = [ m \in Metrics |-> IF m = "latency" THEN k ELSE 0 ]
                /\ astream = [ m \in Metrics |->
                                  IF m = "latency" THEN [ i \in 1..k |-> << v, i >> ] ELSE << >> ]
          /\ made = 0
          /\ history_size = MinHistory + 1
          /\ time_series = [ m \in Metrics |-> None ]
          /\ pver = [ m \in Metrics |-> 0 ]
          /\ pdone = [ m \in Metrics |-> 0 ]
          /\ pstream = [ m \in Metrics |-> << >> ]
          /\ padds = MaxAdds
       \/ /\ sensitivity10 = 5
          /\ baselines = [ m \in Metrics |-> None ]
          /\ clock = 0
          /\ fed = [ m \in Metrics |-> 0 ]
          /\ astream = [ m \in Metrics |-> << >> ]
          /\ made = MaxChecks
          /\ history_size \in 0..MaxHistory
          /\ \E k \in 0..MaxFill, v \in PredValues :
                /\ time_series = [ m \in Metrics |->
                                     IF m = "latency" /\ k > 0
                                     THEN Some(Fill(TimeSeriesData_new(history_size), k, v))
                                     ELSE None ]
                /\ pver = [ m \in Metrics |-> IF m = "latency" THEN k ELSE 0 ]
                /\ pdone = [ m \in Metrics |-> IF m = "latency" THEN k ELSE 0 ]
                /\ pstream = [ m \in Metrics |-> IF m = "latency" THEN [ i \in 1..k |-> << v, i >> ]
                                                      ELSE << >> ]
          /\ padds = 0

NextWindows ==
    \/ \E m \in Metrics, v \in Values : CheckAnomaly(m, v)
    \/ \E m \in Metrics : ResetBaseline(m)
    \/ \E t \in Tasks, m \in Metrics, v \in PredValues : AddDataPoint(t, m, v, pnow) /\ UNCHANGED pseen
    \/ \E t \in Tasks : AddInvalidate(t) /\ UNCHANGED pseen

SpecWindows == InitWindows /\ [][NextWindows]_vars

(***************************************************************************)
(* Claims on the circuit breaker, checked under SpecCB.                    *)
(***************************************************************************)
\* The timeout has elapsed since the last failure recorded in breaker state s.
TimedOut(s) ==
    /\ s.last_failure_time # None
    /\ now - s.last_failure_time[1] > timeout

\* C1: a record_failure on a Closed breaker opens it exactly when it completes
\* failure_threshold consecutive recorded failures (counted by the caller since
\* the last record_success, reset or construction); after fewer it stays Closed.
C1_OpensAtThreshold ==
    (last.op = "record_failure" /\ last.pre.state = "Closed") =>
        IF consec >= failure_threshold
        THEN cb.state = "Open" /\ consec = failure_threshold
        ELSE cb.state = "Closed"

C1_Witness ==
    /\ last.op = "record_failure" /\ last.pre.state = "Closed"
    /\ failure_threshold >= 2
    /\ consec = failure_threshold
    /\ cb.state = "Open"

\* C3: on an Open breaker is_available returns false and changes nothing while the
\* timeout has not elapsed since the last failure, and moves to HalfOpen and returns
\* true once it has; no other step (the clock included) takes Open to HalfOpen.
C3_LazyHalfOpen ==
    /\ (last.op = "is_available" /\ last.pre.state = "Open") =>
            IF TimedOut(last.pre)
            THEN last.ret = TRUE /\ cb.state = "HalfOpen"
            ELSE last.ret = FALSE /\ cb = last.pre
    /\ (last.pre.state = "Open" /\ cb.state = "HalfOpen") => last.op = "is_available"

C3_Witness ==
    /\ last.op = "is_available" /\ last.pre.state = "Open"
    /\ now - last.pre.last_failure_time[1] = timeout + 1
    /\ last.ret = TRUE /\ cb.state = "HalfOpen"

\* C4: a record_failure on a HalfOpen breaker leaves it Open with the success
\* counter at zero, whatever the successes of that half-open period; in every
\* half-open period the counter holds that period's successes only.
C4_HalfOpenFailureReopens ==
    /\ (last.op = "record_failure" /\ last.pre.state = "HalfOpen") =>
            cb.state = "Open" /\ cb.success_count = 0
    /\ cb.state = "HalfOpen" =>
            cb.success_count = hoSucc /\ hoSucc < SuccessesToClose

C4_Witness ==
    /\ last.op = "record_failure" /\ last.pre.state = "HalfOpen"
    /\ hoSucc = 2 /\ last.pre.success_count = 2
    /\ cb.state = "Open"

\* C5: a record_success on a HalfOpen breaker closes it exactly when it is the
\* third success of the half-open period; on closing both counters are zero.
C5_ClosesAtThirdSuccess ==
    (last.op = "record_success" /\ last.pre.state = "HalfOpen") =>
        IF hoSucc = 3
        THEN cb.state = "Closed" /\ cb.failure_count = 0 /\ cb.success_count = 0
        ELSE cb.state = "HalfOpen" /\ hoSucc < 3

C5_Witness ==
    /\ last.op = "record_success" /\ last.pre.state = "HalfOpen"
    /\ hoSucc = 3 /\ cb.state = "Closed"

\* C6: a record_success on a Closed breaker zeroes the failure counter and changes
\* nothing else; a Closed breaker's counter holds the failures since the last success.
C6_ClosedSuccessResets ==
    /\ (last.op = "record_success" /\ last.pre.state = "Closed") =>
            cb = [ last.pre EXCEPT !.failure_count = 0 ]
    /\ cb.state = "Closed" => cb.failure_count = consec /\ consec < failure_threshold

C6_Witness ==
    /\ last.op = "record_success" /\ last.pre.state = "Closed"
    /\ last.pre.failure_count = 2
    /\ cb.state = "Closed" /\ cb.failure_count = 0

(***************************************************************************)
(* Claims on execute_with_resilience, checked under SpecExec.              *)
(***************************************************************************)

AllFailed(rs) == \A i \in 1..Len(rs) : rs[i] = FALSE

\* C2 as stated: under every interleaving the operation is never invoked while the
\* breaker is Open and its timeout has not elapsed.
C2_NeverInvokedWhileOpen ==
    \A t \in Tasks : ~openInvoke[t]

\* C2 amended: a call whose availability check finds the breaker Open with the
\* timeout not elapsed is rejected without any attempt, retry, sleep or recording;
\* no other call is rejected.
C2_BlockedCheckRejects ==
    \A t \in Tasks :
        checkedAt[t] # None =>
            /\ checkedAt[t][1].blocked <=> pc[t] = "rejected"
            /\ pc[t] = "rejected" =>
                    /\ rpc[t] = "none" /\ Invocations(t) = 0 /\ attempts[t] = 0
                    /\ results[t] = << >> /\ slept[t] = << >> /\ recorded[t] = << >>

C2_Witness ==
    \E t, u \in Tasks :
        /\ pc[t] = "rejected" /\ checkedAt[t][1].blocked
        /\ pc[u] = "retrying" /\ Invocations(u) > 0

\* C7: a call that passed the availability check has recorded nothing while its
\* retry loop runs and exactly one outcome once it is done: success for Ok, failure
\* when the retry policy gave up, and that failure adds exactly 1 to the breaker's
\* failure count however many attempts failed.
C7_OneOutcomePerCall ==
    \A t \in Tasks :
        /\ pc[t] \in { "idle", "retrying", "rejected" } => recorded[t] = << >>
        /\ pc[t] = "done" =>
                /\ Len(recorded[t]) = 1
                /\ rpc[t] \in { "ok", "err" }
                /\ rpc[t] = "ok" =>
                        /\ recorded[t][1].outcome = "success"
                        /\ results[t][Len(results[t])] = TRUE
                /\ rpc[t] = "err" =>
                        /\ recorded[t][1].outcome = "failure"
                        /\ AllFailed(results[t])
                        /\ recorded[t][1].after = recorded[t][1].before + 1

C7_Witness ==
    \E t \in Tasks :
        /\ pc[t] = "done" /\ rpc[t] = "err"
        /\ Len(results[t]) = 2
        /\ recorded[t][1].after = recorded[t][1].before + 1

(***************************************************************************)
(* Claims on RetryPolicy::execute, checked under FairRetry.                *)
(***************************************************************************)
\* C8 as stated: the operation is invoked at most max_attempts times.
C8_AtMostMaxAttempts ==
    \A t \in Tasks : Invocations(t) <= max_attempts

RetryBounded(t) ==
    /\ Invocations(t) <= Max(max_attempts, 1)
    /\ rpc[t] = "ok" =>
            /\ results[t][Len(results[t])] = TRUE
            /\ AllFailed(SubSeq(results[t], 1, Len(results[t]) - 1))
    /\ rpc[t] = "err" =>
            /\ AllFailed(results[t])
            /\ Len(results[t]) = Max(max_attempts, 1)
    /\ rpc[t] \in { "attempt", "await", "sleep" } => AllFailed(results[t])
    /\ rpc[t] \in { "attempt", "sleep" } /\ results[t] # << >> =>
            Len(results[t]) < max_attempts

\* C8 amended: execute invokes the operation at most max(max_attempts, 1) times
\* (a policy with max_attempts = 0 still makes one attempt), returns the first Ok
\* without a further attempt, returns the error only when attempt number
\* max(max_attempts, 1) has failed, and a started call returns when each attempt
\* and each sleep ends.
C8_BoundedAttempts ==
    /\ [](\A t \in Tasks : RetryBounded(t))
    /\ \A t \in Tasks : (rpc[t] = "attempt") ~> (rpc[t] \in { "ok", "err" })

C8_Witness ==
    \E t \in Tasks :
        /\ rpc[t] = "err" /\ max_attempts = 3 /\ Len(results[t]) = 3

(***************************************************************************)
(* Claims on the anomaly detector, checked under SpecAnomaly.              *)
(***************************************************************************)
\* The classification rule of the specification: against the value that
\* immediately preceded the new one in the metric's stream.
RuleType(value, mean, prev) ==
    IF value * mean.den > mean.num
    THEN IF 2 * value > 3 * prev THEN "Spike" ELSE "HighValue"
    ELSE IF 2 * value < prev THEN "Drop" ELSE "LowValue"

\* C9: the anomaly type of a flagged value follows the rule on the immediately
\* preceding value: Spike iff above the mean and above 1.5 times the preceding
\* value, Drop iff below the mean and below 0.5 times it.
C9_TypeFollowsPrecedingValue ==
    (lastCheck # None /\ lastCheck[1].ret # None) =>
        LET c == lastCheck[1]
            a == c.ret[1]
        IN  a.anomaly_type = RuleType(c.value, a.expected_value, c.before[Len(c.before)])

\* C10: the first 9 check calls on a metric whose window was empty return no
\* anomaly and leave the metric's anomaly log as it was, whatever the values.
C10_NoDetectionInWarmUp ==
    lastCheck # None =>
        LET c == lastCheck[1]
        IN  c.nth <= 9 => c.ret = None /\ anomalies[c.metric] = c.log_before

\* the 9th value is an outlier that the most sensitive threshold would flag
C10_Witness ==
    /\ lastCheck # None
    /\ lastCheck[1].nth = 9
    /\ lastCheck[1].value = 250
    /\ lastCheck[1].before = Repeat(100, 8)
    /\ sensitivity10 = 10
    /\ lastCheck[1].ret = None

(***************************************************************************)
(* Claims on the sliding windows, checked under SpecWindows.               *)
(***************************************************************************)

\* the last `cap` pairs of a stream, or all of them when there are fewer
Latest(stream, cap) == SubSeq(stream, Len(stream) - Min(cap, Len(stream)) + 1, Len(stream))

\* the (value, timestamp) pairs a window holds, front first
Paired(d) == [ i \in 1..Len(d.values) |-> << d.values[i], d.timestamps[i] >> ]

\* a window holds at most `cap` pairs, and they are the latest of the stream, in arrival order
KeepsLatest(d, stream, cap) ==
    /\ Len(d.values) = Len(d.timestamps)
    /\ Len(d.values) <= cap
    /\ Paired(d) = Latest(stream, cap)

\* C11 as stated: every window, of the detector and of the prediction engine, never holds
\* more than its capacity and holds the most recent values and timestamps, paired, in
\* arrival order.  A prediction engine configured with a history size of 0 holds one point.
C11_WindowNeverExceedsCapacity ==
    /\ \A m \in Metrics : baselines[m] # None =>
            KeepsLatest(baselines[m][1], astream[m], BaselineCapacity)
    /\ \A m \in Metrics : time_series[m] # None =>
            KeepsLatest(time_series[m][1], pstream[m], history_size)

\* C11, amended: the same for every capacity of at least 1; a window whose capacity is 0
\* holds exactly the last point inserted.
C11_WindowKeepsLatest ==
    /\ \A m \in Metrics : baselines[m] # None =>
            KeepsLatest(baselines[m][1], astream[m], BaselineCapacity)
    /\ \A m \in Metrics : time_series[m] # None =>
            KeepsLatest(time_series[m][1], pstream[m], Max(history_size, 1))

\* a detector window that received more values than its capacity
C11_Witness ==
    /\ Len(astream["latency"]) > BaselineCapacity
    /\ Len(baselines["latency"][1].values) = BaselineCapacity
    /\ baselines["latency"][1].values[BaselineCapacity] = 250
    /\ baselines["latency"][1].values[1] = 100


(***************************************************************************)
(* Claim on the end-to-end detection, checked under SpecIngest.            *)
(***************************************************************************)

\* C12: once the outlier has been fed among the oscillating values, the log of "latency"
\* holds exactly one anomaly, the outlier, and its anomaly_type is Spike; before that the
\* log is empty.
C12_ExactlyOneSpike ==
    IF Injected
    THEN /\ anomalies["latency"] # None
         /\ Len(anomalies["latency"][1]) = 1
         /\ anomalies["latency"][1][1].value \in Outliers
         /\ anomalies["latency"][1][1].anomaly_type = "Spike"
    ELSE anomalies["latency"] = None


(***************************************************************************)
(* Correlation groups and graphs (SpecCorr).                               *)
(***************************************************************************)

\* the members of correlation set c whose body is still stored
Retained(c) ==
    IF correlations[c] = None THEN {}
    ELSE { id \in correlations[c][1] : events[id] # None }

\* the call that returned in the last step was op
Returned(op) == clast # None /\ clast[1].op = op

\* the node ids of a graph
NodeIds(g) == { g.nodes[i].event_id : i \in 1..Len(g.nodes) }

\* the (from, to) pairs of the edges of a graph
EdgePairs(g) == { << g.edges[i].from_event_id, g.edges[i].to_event_id >> : i \in 1..Len(g.edges) }

\* C13: in a graph returned by build_correlation_graph every edge starts at a node of
\* that graph: a parent reference to an event that is not a retained member of the
\* correlation set produces no edge.
C13_EdgesStartAtNodes ==
    Returned("build_correlation_graph") /\ clast[1].ret # None
        => \A i \in 1..Len(clast[1].ret[1].edges) :
               clast[1].ret[1].edges[i].from_event_id \in NodeIds(clast[1].ret[1])

\* C14: get_correlated_events(c) returns the retained members of correlation set c,
\* each once; with every add_event returned, ids distinct and nothing evicted, these
\* are the events added under c; an unknown correlation id gives the empty result.
C14_ExactlyRetainedMembers ==
    Returned("get_correlated_events")
        => LET c == clast[1].arg
               ret == clast[1].ret
           IN  /\ Range(ret) = { events[id][1] : id \in Retained(c) }
               /\ Len(ret) = Cardinality(Retained(c))
               /\ correlations[c] = None => ret = << >>
               /\ ( /\ ~cevicted
                    /\ \A t \in Tasks : ccall[t].stage = "none"
                    /\ \A a, b \in cindexed : a.event_id = b.event_id => a = b )
                  => Range(ret) = { ev \in cindexed : ev.correlation_id = Some(c) }

\* three events added under one correlation id are read back
C14_Witness ==
    /\ Returned("get_correlated_events")
    /\ ~cevicted
    /\ \A t \in Tasks : ccall[t].stage = "none"
    /\ \A a, b \in cindexed : a.event_id = b.event_id => a = b
    /\ Len(clast[1].ret) = 3
    /\ cadds > 0

\* C15: the graph of a correlation id has one edge per retained member whose parent
\* is a retained member too, from parent to child, Causal with confidence 1, and no
\* other edge, cycles and self-references included.
C15_EdgePerRetainedParent ==
    Returned("build_correlation_graph") /\ clast[1].ret # None
        => LET c == clast[1].arg
               g == clast[1].ret[1]
               linked == { id \in Retained(c) :
                             /\ events[id][1].parent_event_id # None
                             /\ events[id][1].parent_event_id[1] \in Retained(c) }
           IN  /\ EdgePairs(g) = { << events[id][1].parent_event_id[1], id >> : id \in linked }
               /\ Len(g.edges) = Cardinality(linked)
               /\ \A i \in 1..Len(g.edges) :
                      g.edges[i].correlation_type = "Causal" /\ g.edges[i].confidence = 1

\* C16: build_correlation_graph(c) returns None exactly when no member of correlation
\* set c is retained; otherwise the graph has one node per retained member.
C16_NoneIffNothingRetained ==
    Returned("build_correlation_graph")
        => LET c == clast[1].arg
               ret == clast[1].ret
           IN  /\ ret = None <=> Retained(c) = {}
               /\ ret # None => /\ NodeIds(ret[1]) = Retained(c)
                                /\ Len(ret[1].nodes) = Cardinality(Retained(c))

\* None is returned for a correlation set whose members were all evicted
C16_Witness ==
    /\ Returned("build_correlation_graph")
    /\ clast[1].ret = None
    /\ correlations[clast[1].arg] # None
    /\ cevicted


(***************************************************************************)
(* Forecasts and their cache.                                              *)
(***************************************************************************)

\* the call that returned in the last step was a predict_arima call
ArimaReturned == plast # None /\ plast[1].op = "predict_arima"

\* the metric of the call that returned had a cached forecast younger than its TTL
CacheWasFresh ==
    /\ plast[1].cached_before # None
    /\ pnow - plast[1].cached_before[1].created_at < CacheTtlSeconds

\* C17: once add_data_point(m) has returned, no predict_arima call for m that starts
\* later returns a forecast computed from a history lacking that point, under every
\* interleaving of predict_arima and add_data_point calls; add_data_point leaves m
\* without cached forecast and the cached forecasts of other metrics as they were.
C17_NoStaleForecast ==
    plast # None
        => /\ plast[1].op = "predict_arima" /\ plast[1].ret.ok => plast[1].ver >= plast[1].floor
           /\ plast[1].op = "add_data_point" => plast[1].cached_after = None /\ plast[1].others_kept

\* a forecast is returned to a call that started after an add_data_point of its metric
\* returned, while another caller is inside a call
C17_Witness ==
    /\ ArimaReturned
    /\ plast[1].ret.ok
    /\ plast[1].floor = Len(pstream[plast[1].m])
    /\ pstream[plast[1].m][plast[1].floor][1] = 250
    /\ \E t \in Tasks : pcall[t].op # "none"

\* C18 (as stated): a predict_arima call for a metric that holds fewer than 10 points
\* fails: with UnknownMetric when it has no history, with InsufficientData otherwise.
C18_ShortHistoryFails ==
    ArimaReturned /\ plast[1].held < MinHistory
        => /\ ~ plast[1].ret.ok
           /\ plast[1].held = -1 => plast[1].ret.err = "UnknownMetric"
           /\ plast[1].held > 0 => plast[1].ret.err = "InsufficientData"

\* C18 (amended): a predict_arima call for a metric that holds fewer than 10 points returns
\* the cached forecast when one younger than the TTL exists; otherwise it fails, with
\* UnknownMetric when add_data_point was never called for the metric and with
\* InsufficientData when the metric has an entry, even one emptied by cleanup_old_data.
C18_ShortHistoryFailsOnMiss ==
    ArimaReturned /\ plast[1].held < MinHistory
        => IF CacheWasFresh
           THEN plast[1].ret = Ok(plast[1].cached_before[1].points)
           ELSE /\ ~ plast[1].ret.ok
                /\ plast[1].ret.err = IF plast[1].held = -1 THEN "UnknownMetric" ELSE "InsufficientData"

\* a metric emptied by cleanup_old_data is refused with InsufficientData
C18_Witness ==
    /\ ArimaReturned
    /\ plast[1].held = 0
    /\ pcleaned[plast[1].m]
    /\ ~ CacheWasFresh
    /\ plast[1].ret = Err("InsufficientData")

\* C19: a predict_arima call made while the metric has a cached forecast younger than the
\* TTL returns the cached points unchanged, whatever steps_ahead it asks for, computes
\* nothing and leaves the cache as it was.
C19_CacheHitReturnsCached ==
    ArimaReturned /\ CacheWasFresh
        => /\ plast[1].ret = Ok(plast[1].cached_before[1].points)
           /\ Len(plast[1].ret.points) = plast[1].cached_before[1].steps
           /\ ~ plast[1].computed
           /\ plast[1].cached_after = plast[1].cached_before

\* a call asking for another horizon than the cached one is answered from the cache
C19_Witness ==
    /\ ArimaReturned
    /\ CacheWasFresh
    /\ plast[1].cached_before[1].steps # plast[1].steps
    /\ Len(plast[1].ret.points) # plast[1].steps

\* C20 (as stated): two predict calls for the same metric with the same parameters and no
\* add_data_point for the metric between them return the same result.
C20_SameParametersSameResult == pseen.same

\* C20 (amended): they return the same result provided that cleanup_old_data dropped no
\* point of the metric since its last add_data_point and that neither was answered from a
\* forecast cached for another steps_ahead; the expiry of the TTL between them changes
\* nothing.
C20_SameResultOnSameHistory ==
    pseen.same \/ pcleaned[Subject] \/ pseen.foreign \/ pseen.was_foreign

\* the forecast is computed again after the TTL expired and equals the one returned before
C20_Witness ==
    /\ ArimaReturned
    /\ plast[1].computed
    /\ plast[1].cached_before # None
    /\ pseen.q = Some(Params("predict_arima", plast[1].steps, 0))
    /\ pseen.same /\ ~ pcleaned[Subject] /\ ~ pseen.was_foreign
    /\ plast[1].cached_before[1].steps = plast[1].steps
    /\ plast[1].cached_before[1].points = plast[1].ret.points


\* the call step that returned in the last step trimmed a metric in cleanup_old_data
Cleaned == plast # None /\ plast[1].op = "cleanup_old_data"

\* C21: after cleanup_old_data a metric's history holds no point older than the cutoff,
\* and what remains is the rear of what it held, values and timestamps still paired.
C21_NothingOlderThanCutoff ==
    Cleaned
        => LET b == plast[1].before
               a == plast[1].after
               dropped == Len(b.values) - Len(a.values)
           IN  /\ \A i \in 1..Len(a.timestamps) : a.timestamps[i] >= plast[1].cutoff
               /\ Len(a.values) = Len(a.timestamps)
               /\ dropped >= 0
               /\ \A i \in 1..Len(a.values) :
                      a.values[i] = b.values[i + dropped] /\ a.timestamps[i] = b.timestamps[i + dropped]


\* the metric of the predict_arima call that returned had a cached forecast whose age
\* had reached the TTL
CacheWasStale ==
    /\ ArimaReturned
    /\ plast[1].cached_before # None
    /\ pnow - plast[1].cached_before[1].created_at >= CacheTtlSeconds

\* the call that returned computed its forecast from the history the metric holds and
\* left it in the cache, stamped with the time of the call
Recomputed ==
    /\ plast[1].ret.ok
    /\ plast[1].computed
    /\ plast[1].ret.points = arima_forecast(time_series[plast[1].m][1], plast[1].steps)
    /\ plast[1].cached_after # None
    /\ plast[1].cached_after[1].points = plast[1].ret.points
    /\ plast[1].cached_after[1].created_at = pnow

\* a forecast is answered from the cache only while the cached entry is younger than the TTL
ServedOnlyFresh ==
    ArimaReturned /\ plast[1].ret.ok /\ ~ plast[1].computed => CacheWasFresh

\* C22 (as stated): a predict_arima call made when the cached entry's age has reached the
\* TTL recomputes from the current history and replaces the cache entry.
C22_StaleCacheRecomputed ==
    /\ ServedOnlyFresh
    /\ CacheWasStale => Recomputed

\* C22 (amended): such a call recomputes and replaces the cache entry when the metric
\* holds at least 10 points; otherwise it fails with InsufficientData and the stale
\* entry stays in the cache.
C22_StaleCacheNotServed ==
    /\ ServedOnlyFresh
    /\ CacheWasStale =>
         IF plast[1].held >= MinHistory THEN Recomputed
         ELSE /\ plast[1].ret = Err("InsufficientData")
              /\ plast[1].cached_after = plast[1].cached_before

\* a forecast is computed again at the moment the cached one reaches the TTL, no point
\* having been added since it was cached
C22_Witness ==
    /\ CacheWasStale
    /\ pnow - plast[1].cached_before[1].created_at = CacheTtlSeconds
    /\ Recomputed
    /\ plast[1].cached_before[1].ver = plast[1].ver


RECURSIVE Pow(_, _)
Pow(b, n) == IF n = 0 THEN 1 ELSE b * Pow(b, n - 1)

\* the numerator, over 2^(n-1), of the level reached by smoothing values with factor
\* alpha2 / 2: (1 - alpha)^(n-1) * v1 + the sum of alpha * (1 - alpha)^(n-i) * vi for i > 1
LevelNum(values, alpha2) ==
    LET n == Len(values)
    IN  Pow(2 - alpha2, n - 1) * values[1]
        + Sum([ j \in 1..(n - 1) |->
                  alpha2 * Pow(2 - alpha2, n - 1 - j) * Pow(2, j - 1) * values[j + 1] ])

\* the call that returned in the last step was a predict_exponential_smoothing call
SmoothingReturned == plast # None /\ plast[1].op = "predict_exponential_smoothing"

\* C23: predict_exponential_smoothing fails for a metric that never received data; for a
\* metric holding points it returns steps_ahead points that all carry the final smoothed
\* level, which with a single point held is that point's value for every smoothing factor.
C23_FlatAtSmoothedLevel ==
    SmoothingReturned
        => LET r == plast[1]
               pts == r.ret.points
           IN  /\ r.held = -1 => r.ret = Err("UnknownMetric")
               /\ r.held >= 1 =>
                    LET values == time_series[r.m][1].values
                    IN  /\ r.ret.ok
                        /\ Len(pts) = r.steps
                        /\ \A i \in 1..Len(pts) :
                             /\ pts[i].value = pts[1].value
                             /\ pts[i].value.seasonal.num = 0
                             /\ pts[i].value.trend.num * Pow(2, Len(values) - 1)
                                  = LevelNum(values, r.alpha2) * pts[i].value.trend.den
                        /\ r.held = 1 => \A i \in 1..Len(pts) :
                             pts[i].value.trend.num = values[1] * pts[i].value.trend.den

\* two steps are forecast from a single point with smoothing factor 0
C23_Witness ==
    /\ SmoothingReturned
    /\ plast[1].held = 1
    /\ plast[1].steps = 2
    /\ plast[1].alpha2 = 0
    /\ plast[1].ret.ok


(***************************************************************************)
(* Temporal patterns, eviction and the analysis of module pairs.           *)
(***************************************************************************)

\* the retained events other than ev whose distance from ev passes Within
Neighbours(ev, Within(_)) ==
    { id \in EventIds \ { ev.event_id } :
        events[id] # None /\ Within(ev.timestamp - events[id][1].timestamp) }

\* add_event(E) added to each pattern one occurrence, stamped with E's timestamp, per
\* neighbour O of E with (E's module, O's module) as key, and changed no other pattern
RecordsPerNeighbour(Within(_)) ==
    Returned("add_event")
        => LET ev == clast[1].event
           IN  \A key \in Modules \X Modules :
                 LET from == or_insert(clast[1].before[key], TemporalPattern_new)
                     n == Cardinality({ id \in Neighbours(ev, Within) :
                                          key = << ev.source_module, events[id][1].source_module >> })
                 IN  IF n = 0 THEN patterns[key] = clast[1].before[key]
                     ELSE /\ patterns[key] # None
                          /\ Len(patterns[key][1].occurrences) = Len(from.occurrences) + n
                          /\ Len(patterns[key][1].time_diffs) = Len(from.time_diffs) + n
                          /\ \A i \in 1..Len(patterns[key][1].occurrences) :
                               patterns[key][1].occurrences[i] =
                                 IF i <= Len(from.occurrences) THEN from.occurrences[i]
                                 ELSE ev.timestamp

\* at most 5 minutes apart
WithinFiveMinutes(d) == Abs(d) <= CorrelationWindow * PerSecond

\* at most 5 minutes apart once the distance is cut to whole seconds: less than 301 s
WithinWholeSeconds(d) == Abs(d) \div PerSecond <= CorrelationWindow

\* C24 (as stated): add_event(E) records one occurrence per other retained event whose
\* timestamp is within 5 minutes of E's, under the key (E's module, the other's module),
\* and nothing else.
C24_OccurrencePerEventInWindow == RecordsPerNeighbour(WithinFiveMinutes)

\* C24 (amended): the same, for the other retained events whose distance from E in whole
\* seconds, fractions dropped, is at most 300, that is less than 301 seconds.
C24_OccurrencePerEventInSeconds == RecordsPerNeighbour(WithinWholeSeconds)

\* an event stamped 300.5 s before two retained events is recorded against both
C24_Witness ==
    /\ Returned("add_event")
    /\ clast[1].event.timestamp = BaseTime - (CorrelationWindow * PerSecond + 1)
    /\ Cardinality(Neighbours(clast[1].event, WithinWholeSeconds)) = 2
    /\ patterns # clast[1].before


\* C25: cleanup_old_events removes exactly the retained events that are not newer than
\* the cutoff, returns their number, keeps the newer ones as they were, and leaves every
\* correlation set and every temporal pattern unchanged.
C25_EvictsExactlyTheOld ==
    Returned("cleanup_old_events")
        => LET b == clast[1].before
               old == { id \in EventIds :
                          b.events[id] # None /\ b.events[id][1].timestamp <= clast[1].cutoff }
           IN  /\ \A id \in EventIds : events[id] = IF id \in old THEN None ELSE b.events[id]
               /\ clast[1].ret = Cardinality(old)
               /\ correlations = b.correlations
               /\ patterns = b.patterns

\* events stamped with the cutoff are evicted, a newer one is kept, and the evicted ids
\* stay in their correlation set
C25_Witness ==
    /\ Returned("cleanup_old_events")
    /\ clast[1].ret = 2
    /\ \E id \in EventIds : events[id] # None
    /\ \E id \in EventIds :
         /\ clast[1].before.events[id] # None
         /\ clast[1].before.events[id][1].timestamp = clast[1].cutoff
         /\ \E c \in CorrelationIds : correlations[c] # None /\ id \in correlations[c][1]


\* C26: analyze_module_correlation(A, B) returns nothing when no occurrence was recorded
\* for (A, B); otherwise it reports the number of occurrences and the confidence
\* min(count / 100, 1) * 0.9 + 0.1, which does not decrease with the count, is above 0.1,
\* at most 1, and 1 from 100 occurrences on.
C26_ConfidenceOfRecordedPair ==
    Returned("analyze_module_correlation")
        => LET key == clast[1].arg
               ret == clast[1].ret
               known == key \in Modules \X Modules /\ patterns[key] # None
           IN  /\ ret = None <=> ~ known
               /\ ret # None =>
                    LET count == Len(patterns[key][1].occurrences)
                        conf == ret[1].confidence
                        more == CorrelationEngine_calculate_confidence(count + 1)
                    IN  /\ count > 0
                        /\ ret[1].correlation_count = count
                        /\ conf.num * 1000 = (9 * (IF count < 100 THEN count ELSE 100) + 100) * conf.den
                        /\ conf.num * more.den <= more.num * conf.den
                        /\ 10 * conf.num > conf.den
                        /\ conf.num <= conf.den
                        /\ count >= 100 => conf.num = conf.den

\* a pair with 101 recorded occurrences is reported with confidence 1
C26_Witness ==
    /\ Returned("analyze_module_correlation")
    /\ clast[1].ret # None
    /\ clast[1].ret[1].correlation_count = 101
    /\ clast[1].ret[1].confidence.num = clast[1].ret[1].confidence.den


(***************************************************************************)
(* The consumer loop, the channel and publish_batch.                       *)
(***************************************************************************)

\* a message that fails to deserialize is dropped: nothing is buffered or sent for it and
\* the loop receives again
MalformedDropped ==
    message_count' # message_count /\ llast'.kind = "malformed"
        => /\ batch' = batch /\ draining' = draining
           /\ channel' = channel /\ queued' = queued
           /\ lpc' = "Receiving"

\* a consumer error starts the pause; the loop receives nothing while paused and leaves
\* the pause, after one second, for Receiving
ErrorPauses ==
    /\ lmsgs' # lmsgs /\ llast'.kind = "error" => lpc' = "Paused" /\ batch' = batch
    /\ lpc = "Paused" =>
         /\ lmsgs' = lmsgs /\ message_count' = message_count
         /\ lpc' = "Paused" \/ (lpc' = "Receiving" /\ llast'.slept = PauseSeconds)

\* the flush waits on a full channel whose receiver is open
BlockedOnFull ==
    lpc = "Flushing" /\ rx_open /\ ~ has_capacity(channel, buffer_size)

\* C27 (as stated): the consumer loop never stops: a malformed message is dropped and the
\* loop receives the next one; a transport error pauses the loop for one second, after
\* which it receives again; from every state the loop eventually returns to Receiving.
C27_LoopNeverStops ==
    /\ [][MalformedDropped]_vars
    /\ [][ErrorPauses]_vars
    /\ (lpc # "Receiving") ~> (lpc = "Receiving")

\* C27 (amended): a malformed message is dropped and the loop receives the next one; a
\* transport error pauses the loop for one second, after which it receives again; from
\* every state the loop eventually returns to Receiving, unless from some point on it
\* stays blocked in a flush on a full channel whose receiver is open.
C27_LoopStopsOnlyWhenBlocked ==
    /\ [][MalformedDropped]_vars
    /\ [][ErrorPauses]_vars
    /\ [](lpc # "Receiving" => (<>(lpc = "Receiving") \/ <>[]BlockedOnFull))

\* an event is received and buffered right after a malformed message
C27_Witness ==
    /\ llast.prev = "malformed"
    /\ llast.kind = "event"
    /\ lpc = "Receiving"
    /\ batch # << >>

\* the events flushed so far went to the channel once each, in the order of receipt, and the
\* channel holds the latest of them, no more than its capacity
FlushedInOrder ==
    /\ Len(channel) <= buffer_size
    /\ \A i \in 1..(Len(accepted) - 1) : accepted[i] < accepted[i + 1]
    /\ rx_open =>
         /\ queued \o draining \o batch = accepted
         /\ Len(channel) <= Len(queued)
         /\ channel = SubSeq(queued, Len(queued) - Len(channel) + 1, Len(queued))

\* while the channel is full the loop neither sends nor receives, and it receives only
\* when no flush is under way
BlockedWhileFull ==
    /\ lpc = "Flushing" /\ rx_open /\ Len(channel) >= buffer_size
         => /\ message_count' = message_count /\ lmsgs' = lmsgs
            /\ draining' = draining /\ queued' = queued /\ lpc' = lpc
    /\ message_count' # message_count \/ lmsgs' # lmsgs => lpc = "Receiving"

\* C28: while the downstream receiver is open every flushed event is placed on the channel
\* exactly once and in the order received; when the channel is full the loop blocks until
\* space is free, and the channel never holds more than buffer_size events.
C28_BackpressureNoDrop ==
    /\ []FlushedInOrder
    /\ [][BlockedWhileFull]_vars

\* the loop is blocked on a full channel in the middle of a flush, after earlier sends
\* went through
C28_Witness ==
    /\ lpc = "Flushing"
    /\ rx_open
    /\ Len(channel) = buffer_size
    /\ Len(queued) > buffer_size
    /\ draining # << >>

\* C29: publish_batch returns the first failure of the batch, in batch order, and leaves
\* the messages already delivered in the topic; it returns Ok only when every event of
\* the batch was delivered.
C29_FirstFailureNoRollback ==
    publish.stage = "returned"
        => LET n == Len(publish.events)
               o == publish.outcomes
               failure == publish.ret[1]
           IN  /\ failure = 0 <=> \A i \in 1..n : o[i] = "delivered"
               /\ failure # 0 => /\ failure \in 1..n
                                 /\ o[failure] = "failed"
                                 /\ \A j \in 1..(failure - 1) : o[j] = "delivered"
               /\ topic = publish.before \o Delivered(publish.events, o)
               /\ \A j \in 1..n : o[j] = "delivered" =>
                    \E k \in (Len(publish.before) + 1)..Len(topic) : topic[k] = publish.events[j]

\* the second send of a batch of three fails after the first was delivered, and a later
\* one failed too
C29_Witness ==
    /\ publish.stage = "returned"
    /\ Len(publish.events) = 3
    /\ publish.ret = Some(2)
    /\ publish.outcomes[3] = "failed"
    /\ Len(topic) = Len(publish.before) + 1


(***************************************************************************)
(* The backoff delays of RetryPolicy::execute.                             *)
(***************************************************************************)

\* C30: every delay execute sleeps between two attempts is at most the delay cap, for every
\* configured initial delay and multiplier; the first delay is the initial delay and each
\* later one is the previous delay times the multiplier, limited to the cap.
C30_DelaysWithinCap ==
    \A t \in Tasks :
        /\ \A i \in 1..Len(slept[t]) : slept[t][i] <= MaxDelayMs
        /\ slept[t] # << >> => slept[t][1] = initial_delay
        /\ \A i \in 2..Len(slept[t]) :
             slept[t][i] = Min((slept[t][i - 1] * multiplier10) \div 10, MaxDelayMs)


(***************************************************************************)
(* The anomaly log.                                                        *)
(***************************************************************************)

\* the anomaly log of metric m in the map an
LogOf(an, m) == or_insert(an[m], << >>)

\* check_anomaly appends what it returns, once, to the log of its metric; nothing else
\* changes a log; get_anomalies returns the newest min(limit, n) entries, newest first
LogStep ==
    /\ \A m \in Metrics :
          /\ Len(LogOf(anomalies, m)) <= Len(LogOf(anomalies', m))
          /\ SubSeq(LogOf(anomalies', m), 1, Len(LogOf(anomalies, m))) = LogOf(anomalies, m)
    /\ made' # made =>
          LET c == lastCheck'[1]
          IN  /\ LogOf(anomalies', c.metric) =
                    IF c.ret = None THEN LogOf(anomalies, c.metric)
                    ELSE Append(LogOf(anomalies, c.metric), c.ret[1])
              /\ \A m \in Metrics \ { c.metric } : anomalies'[m] = anomalies[m]
    /\ made' = made => anomalies' = anomalies
    /\ aret' # None =>
          LET r == aret'[1]
              log == LogOf(anomalies, r.metric)
              n == Len(log)
              k == Min(r.limit, n)
          IN  /\ Len(r.ret) = k
              /\ \A i \in 1..k : r.ret[i] = log[n - i + 1]

\* C31: every anomaly check_anomaly returns is appended exactly once to its metric's log;
\* no operation, reset_baseline included, reorders or prunes a log; get_anomalies(m, limit)
\* returns exactly the min(limit, n) most recently detected anomalies of m, newest first.
C31_LogAppendOnlyNewestFirst == [][LogStep]_vars

\* get_anomalies returns the newest one of several anomalies of a metric whose baseline
\* was reset since
C31_Witness ==
    /\ aret # None
    /\ aret[1].limit = 1
    /\ Len(LogOf(anomalies, aret[1].metric)) >= 2
    /\ baselines[aret[1].metric] = None
    /\ aret[1].ret = << LogOf(anomalies, aret[1].metric)[Len(LogOf(anomalies, aret[1].metric))] >>


(***************************************************************************)
(* reset_baseline.                                                         *)
(***************************************************************************)

\* the step is a reset_baseline of metric m
IsReset(m) == baselines[m] # None /\ made' = made /\ baselines'[m] # baselines[m]

\* a reset removes the window of its metric and touches neither the other windows nor
\* the logs; no step without a check changes two windows
ResetFrame ==
    /\ \A m \in Metrics :
          IsReset(m) => /\ baselines'[m] = None
                        /\ anomalies' = anomalies
    /\ made' = made => \A m, x \in Metrics : IsReset(m) /\ IsReset(x) => m = x
    /\ made' = made => \A m \in Metrics : baselines[m] = None => baselines'[m] = None

\* the mean of the values checked for metric m since its window was last empty
MeanSince(m) ==
    [ num |-> Sum([ i \in 1..Len(astream[m]) |-> astream[m][i][1] ]), den |-> Len(astream[m]) ]

\* the window of a metric holds the values checked since it was last empty, the latest
\* BaselineCapacity of them, and nothing older
OnlySinceEmpty ==
    \A m \in Metrics :
        IF baselines[m] = None THEN astream[m] = << >>
        ELSE Paired(baselines[m][1]) = Latest(astream[m], BaselineCapacity)

\* the first 9 checks of a metric since its window was last empty find no anomaly, and an
\* anomaly found later, before the window is full, is measured on those values alone
FreshWarmUp ==
    lastCheck # None =>
        LET c == lastCheck[1]
        IN  /\ c.nth <= WarmUp - 1 => c.ret = None
            /\ c.nth = 1 => c.before = << >>
            /\ (c.ret # None /\ c.nth <= BaselineCapacity) =>
                   c.ret[1].expected_value = MeanSince(c.metric)

\* C32: reset_baseline(m) empties the rolling window of m and forces a fresh warm-up: the
\* next 9 checks of m return no anomaly, and statistics are computed only from the values
\* inserted after the reset; the baselines of all other metrics are unchanged.
C32_ResetForcesWarmUp ==
    /\ [][ResetFrame]_vars
    /\ []OnlySinceEmpty
    /\ []FreshWarmUp

\* "latency" was past its warm-up and had an anomaly flagged, was reset while "cost" kept
\* its window, and the same outlier checked right after the reset is not flagged
C32_Witness ==
    /\ lastCheck # None
    /\ lastCheck[1].metric = "latency"
    /\ lastCheck[1].nth = 1
    /\ lastCheck[1].ret = None
    /\ anomalies["latency"] # None
    /\ anomalies["latency"][1][1].value = lastCheck[1].value
    /\ baselines["latency"][1].values = << lastCheck[1].value >>
    /\ baselines["cost"] # None


(***************************************************************************)
(* Concurrent insertions (SpecConc, FairConc).                             *)
(***************************************************************************)

\* the caller is inside a call
Busy(t) == icall[t].op # "none"

\* the caller is in the middle of add_value or add_point on the window of m
Inserting(t, op, m) ==
    icall[t].op = op /\ icall[t].m = m /\ icall[t].stage \in { "locked", "valued" }

\* the caller waits for a lock that is held
Waits(t) ==
    LET c == icall[t]
    IN  \/ c.op = "check_anomaly" /\ c.stage = "waiting" /\ ~ entry_free(icall, c.m)
        \/ c.op = "check_anomaly" /\ c.stage = "logging" /\ ~ log_free(icall, c.m)
        \/ c.op = "add_data_point" /\ c.stage = "waiting" /\ ~ series_free(icall, c.m)

\* at most one caller is inside the guarded part of an insertion on a key, and a window
\* nobody is inserting into holds the points inserted so far, each once, value and
\* timestamp paired, in the order in which the insertions took the lock
SerializedPerKey ==
    \A m \in Metrics :
        /\ \A t, u \in Tasks :
              (HoldsBaseline(icall[t], m) /\ HoldsBaseline(icall[u], m)) \/
              (HoldsSeries(icall[t], m) /\ HoldsSeries(icall[u], m)) => t = u
        /\ (baselines[m] # None /\ \A t \in Tasks : ~ Inserting(t, "check_anomaly", m))
              => KeepsLatest(baselines[m][1], astream[m], BaselineCapacity)
        /\ (time_series[m] # None /\ \A t \in Tasks : ~ Inserting(t, "add_data_point", m))
              => KeepsLatest(time_series[m][1], pstream[m], Max(history_size, 1))

\* a check returns the verdict of the window as its own insertion left it
VerdictOnOwnInsertion ==
    lastCheck # None =>
        LET c == lastCheck[1]
            r == check_anomaly(c.entry, c.metric, c.value, c.timestamp, sensitivity10)
        IN  /\ c.ret = r.ret
            /\ c.window = Some(r.baseline)

\* whenever callers are inside calls, one of them can run its next statement
NoDeadlock == (\E t \in Tasks : Busy(t)) => \E t \in Tasks : Busy(t) /\ ~ Waits(t)

\* caller u holds the lock caller t waits for
HeldBy(t, u) ==
    LET c == icall[t]
    IN  \/ c.op = "check_anomaly" /\ c.stage = "waiting" /\ HoldsBaseline(icall[u], c.m)
        \/ c.op = "check_anomaly" /\ c.stage = "logging" /\ HoldsLog(icall[u], c.m)
        \/ c.op = "add_data_point" /\ c.stage = "waiting" /\ HoldsSeries(icall[u], c.m)

\* a caller waits only for a caller that holds the lock and can itself run on to drop
\* it; a call on a metric whose key shares no shard with the other metric waits only for
\* calls on that metric and for the iterator of get_all_anomalies
WaitsOnlyForRunner ==
    \A t \in Tasks :
        Waits(t) => \E u \in Tasks \ { t } :
                       /\ HeldBy(t, u)
                       /\ ~ Waits(u)
                       /\ collide \/ icall[u].m = icall[t].m \/ icall[u].op = "get_all_anomalies"

Moves(t, from, to) == ccall[t].stage = from /\ ccall'[t].stage = to

\* the body is stored by the first step of a call, the id indexed by its second step,
\* the patterns updated by its third, and each step touches its own map only
StepsInOrder ==
    /\ \A t \in Tasks :
          ccall'[t] # ccall[t] =>
              \/ Moves(t, "none", "stored") /\ events' = store(events, ccall'[t].event[1])
                    /\ correlations' = correlations /\ patterns' = patterns
              \/ Moves(t, "stored", "indexed") /\ correlations' = index(correlations, ccall[t].event[1])
                    /\ events' = events /\ patterns' = patterns
              \/ Moves(t, "indexed", "none") /\ events' = events /\ correlations' = correlations
    /\ correlations' # correlations => \E t \in Tasks : Moves(t, "stored", "indexed")
    /\ patterns' # patterns => \E t \in Tasks : Moves(t, "indexed", "none")

\* every id in a correlation set belongs to a body that is stored, or was before an
\* eviction
IndexedWereStored ==
    \A c \in CorrelationIds :
        correlations[c] # None =>
            \A id \in correlations[c][1] : events[id] # None \/ cevicted

\* C34: add_event stores the body, then adds the id to its correlation set, then updates
\* the temporal patterns, in that order and not atomically; no event id is in a
\* correlation set before that event's body was stored.
C34_StoreIndexCorrelate ==
    /\ [][StepsInOrder]_vars
    /\ []IndexedWereStored

\* a reader of a correlation group returns while an event of that group is stored and not
\* yet indexed: the group it gets lacks the event
C34_Witness ==
    /\ Returned("get_correlated_events")
    /\ \E t \in Tasks :
          /\ ccall[t].stage = "stored"
          /\ ccall[t].event[1].correlation_id = Some(clast[1].arg)
          /\ events[ccall[t].event[1].event_id] = ccall[t].event
          /\ \A i \in 1..Len(clast[1].ret) : clast[1].ret[i].event_id # ccall[t].event[1].event_id


(***************************************************************************)
(* The size of the batch of the consumer loop (SpecLoop).                  *)
(***************************************************************************)

\* C35: whenever the loop waits for the next message its batch holds fewer than 1000
\* events: a batch that reaches 1000 is drained whole before the next receive, whether
\* every send of the flush succeeds or one of them fails.
C35_BatchBelowLimit ==
    /\ Len(batch) < BatchLimit
    /\ lpc # "Flushing" => draining = << >>
    /\ lpc = "Flushing" => batch = << >> /\ draining # << >>

\* a flush that failed part-way: some events of the batch were sent, the receiver was
\* dropped, and the loop is back at its receive with an empty batch
C35_Witness ==
    /\ lpc = "Receiving"
    /\ ~ rx_open
    /\ Len(accepted) >= BatchLimit
    /\ queued # << >>
    /\ Len(queued) < Len(accepted)
    /\ batch = << >>


(***************************************************************************)
(* The counters of the circuit breaker (SpecCB).                           *)
(***************************************************************************)

\* C36: with a failure threshold of at least 1, in every state reached by is_available,
\* record_success, record_failure and reset in any order, a Closed breaker has counted
\* fewer failures than the threshold, and the success counter is at most 2 and is
\* non-zero only while the breaker is HalfOpen.
C36_CounterInvariant ==
    failure_threshold >= 1 =>
        /\ cb.state = "Closed" => cb.failure_count < failure_threshold
        /\ cb.success_count <= SuccessesToClose - 1
        /\ cb.success_count # 0 => cb.state = "HalfOpen"

\* a reset of an Open breaker that had counted as many failures as the threshold, and a
\* HalfOpen breaker two successes into its probe
C36_Witness ==
    \/ /\ last.op = "reset"
       /\ last.pre.state = "Open"
       /\ last.pre.failure_count >= failure_threshold
       /\ cb.state = "Closed"
    \/ /\ last.op = "record_success"
       /\ cb.state = "HalfOpen"
       /\ cb.success_count = SuccessesToClose - 1


(***************************************************************************)
(* The way out of the Open state (SpecCB).                                 *)
(***************************************************************************)

\* the clock readings from the present one to one past every timeout
LaterTimes == now..(MaxTime + MaxTimeout + 1)

\* an is_available call made at time t on the breaker as it is
AvailableAt(t) == is_available(cb, t, timeout)

\* C37: every reachable Open state holds the time of the last failure, and an
\* is_available call made on it at any time more than the timeout after that failure
\* returns true and leaves the breaker HalfOpen: an Open breaker does not stay
\* unavailable forever once failures stop and time passes.
C37_OpenRecovers ==
    cb.state = "Open" =>
        /\ cb.last_failure_time # None
        /\ \E t \in LaterTimes : t - cb.last_failure_time[1] > timeout
        /\ \A t \in LaterTimes :
              t - cb.last_failure_time[1] > timeout =>
                  AvailableAt(t).ret = TRUE /\ AvailableAt(t).st.state = "HalfOpen"

\* a breaker that recorded a failure while Open, and was let through by is_available
\* after the timeout had passed since that failure
C37_Witness ==
    /\ last.op = "is_available"
    /\ last.pre.state = "Open"
    /\ last.pre.failure_count > failure_threshold
    /\ now - last.pre.last_failure_time[1] > timeout
    /\ last.ret = TRUE
    /\ cb.state = "HalfOpen"


(***************************************************************************)
(* Concurrent add_event calls (src/analytics/correlation.rs 42-97).        *)
(*                                                                         *)
(* Two callers add events with ids the engine has not seen, stamped within *)
(* one correlation window; the statements of their calls interleave.       *)
(***************************************************************************)

\* timestamps within one window of each other: the same instant and a minute later
PairStamps == { 0, 60 * PerSecond }

\* no stored event and no call in flight has the id
Fresh(id) ==
    /\ events[id] = None
    /\ \A t \in Tasks : IF ccall[t].event = None THEN TRUE
                         ELSE ccall[t].event[1].event_id # id

\* add_event, lines 43-46, for an event whose id is new to the engine
AddEventStoreFresh(t, id, ts) ==
    LET ev == Event(id, None, None, ts)
    IN  /\ ccall[t].stage = "none"
        /\ Fresh(id)
        /\ events' = store(events, ev)
        /\ ccall' = [ ccall EXCEPT ![t] = [ stage |-> "stored", event |-> Some(ev) ] ]
        /\ clast' = None
        /\ UNCHANGED << correlations, patterns, cnow, cadds, cindexed, cevicted, cticks,
                        nonCorrVars >>

\* CorrelationEngine::new
InitPairs ==
    /\ cb = new /\ failure_threshold = 5 /\ timeout = 60 /\ now = 0
    /\ ObsInit /\ ConcIdle /\ RetryIdle /\ ExecIdle /\ AnomIdle /\ PredIdle /\ IngIdle
    /\ events = Seeded(0).events
    /\ correlations = Seeded(0).correlations
    /\ patterns = Seeded(0).patterns
    /\ cindexed = {}
    /\ cnow = 0
    /\ cadds = 0
    /\ cticks = 0
    /\ ccall = [ t \in Tasks |-> NoAdd ]
    /\ clast = None
    /\ cevicted = FALSE

NextPairs ==
    \/ \E t \in Tasks, id \in EventIds, ts \in PairStamps : AddEventStoreFresh(t, id, ts)
    \/ \E t \in Tasks : AddEventIndex(t)
    \/ \E t \in Tasks : AddEventCorrelate(t)

SpecPairs == InitPairs /\ [][NextPairs]_vars

\* the occurrences held by the patterns of all module pairs
Occurrences ==
    LET keys == { key \in Modules \X Modules : patterns[key] # None }
        count[ks \in SUBSET keys] ==
            IF ks = {} THEN 0
            ELSE LET key == CHOOSE k \in ks : TRUE
                 IN  Len(patterns[key][1].occurrences) + count[ks \ { key }]
    IN  count[keys]

\* the events the engine holds
Stored == { id \in EventIds : events[id] # None }

\* no add_event call is between its first and its last statement
Quiescent == \A t \in Tasks : ccall[t].stage = "none"

\* C38: once n events with distinct ids and timestamps within one window were added, by
\* calls that may have run concurrently, the patterns hold n(n-1)/2 occurrences: one
\* for each unordered pair of events.
C38_OneOccurrencePerPair ==
    Quiescent =>
        Occurrences = (Cardinality(Stored) * (Cardinality(Stored) - 1)) \div 2

\* no pair is missed: whatever the interleaving, the later-stored event of a pair finds
\* the other, so the patterns never hold fewer than n(n-1)/2 occurrences
NoPairMissed ==
    (Quiescent /\ Occurrences # (Cardinality(Stored) * (Cardinality(Stored) - 1)) \div 2) =>
        Occurrences > (Cardinality(Stored) * (Cardinality(Stored) - 1)) \div 2


(***************************************************************************)
(* The correlation id of the events of a group (SpecCorr).                 *)
(***************************************************************************)

\* the stored body of the id carries the correlation id
Carries(id, c) == events[id] # None /\ events[id][1].correlation_id = Some(c)

\* C39: every event returned by get_correlated_events(c), and every node of the graph
\* built for c, is of an event whose stored body carries the correlation id c, also
\* after add_event replaced a stored event by another with the same id.  The reads are
\* those made while no add_event call is in flight.
C39_GroupCarriesId ==
    Quiescent =>
        /\ Returned("get_correlated_events") =>
              \A i \in 1..Len(clast[1].ret) :
                  /\ clast[1].ret[i].correlation_id = Some(clast[1].arg)
                  /\ Carries(clast[1].ret[i].event_id, clast[1].arg)
        /\ (Returned("build_correlation_graph") /\ clast[1].ret # None) =>
              \A i \in 1..Len(clast[1].ret[1].nodes) :
                  Carries(clast[1].ret[1].nodes[i].event_id, clast[1].arg)


(***************************************************************************)
(* Delivery of the buffered events (FairLoop).                             *)
(***************************************************************************)

\* positions in the order of deserialization: the first event, and the events around
\* the one that fills a batch
DeliveryMarks == { 1, BatchLimit - 1, BatchLimit, BatchLimit + 1 }

\* the receiver stays open and the downstream consumer keeps reading: it empties the
\* channel again and again
DownstreamReads == []rx_open /\ []<>(channel = << >>)

\* the n-th deserialized event, once buffered, is at some time sent on the channel.  A run
\* that used up the messages of the model is let off, so that the runs that fail this are
\* runs of a transport that could deliver a message and stays silent.
Forwarded(n) == (Len(accepted) >= n) ~> (Len(queued) >= n \/ lmsgs = MaxMessages)

\* C40: while the receiver stays open and the downstream consumer keeps reading, every
\* deserialized event is eventually sent on the downstream channel, whether or not the
\* transport delivers further messages.
C40_EveryEventDelivered ==
    DownstreamReads => \A n \in DeliveryMarks : Forwarded(n)

====
